---- MODULE Spec2Model ----
(***************************************************************************)
(* Manager-analysis run orchestrator (debate -> arbiter -> guidance) of    *)
(* prfrd, modelled from lib/services/managerAnalysisOrchestrator.ts, the   *)
(* stage functions of lib/ai/managerAnalysis (lib/ai/openai.ts) and the    *)
(* analysis_* tables of the SQL migration.                                 *)
(*                                                                         *)
(* Every `await` of generateManagerAnalysisOrchestration is one action of  *)
(* a request; concurrent requests interleave at those points.  A storage   *)
(* write either takes effect or throws without effect.  Texts are taken    *)
(* from a finite vocabulary; the regular expressions of the code are the   *)
(* sets of vocabulary texts they match.                                    *)
(***************************************************************************)
EXTENDS Integers, Sequences, FiniteSets, Bags, TLC

\* ------------------------------------------------------------------ bounds
NumClients == 2
MaxRequests == 2
MaxWriteFaults == 1
MaxMonth == 4
MaxCalls == 2
MaxTime == 3
MaxCatalog == 2
MaxRefs == 2
MaxWeeks == 13
MaxSignals == 2
MaxReports == 2
MaxApplications == 3

Clients == 1..NumClients

\* ------------------------------------------------------------- null values
NoRun == 0
NoUsage == 0
NoStage == "none"

\* --------------------------------------------------------- small utilities
Range(s) == {s[i] : i \in DOMAIN s}

\* the rows of one insert statement, as a bag
SeqToBag(s) == [x \in Range(s) |-> Cardinality({i \in DOMAIN s : s[i] = x})]

RECURSIVE SelectIdx(_, _, _)
\* indexes i of sequence s, in order, whose element is in the set keep
SelectIdx(s, keep, i) ==
  IF i > Len(s) THEN <<>>
  ELSE IF s[i] \in keep THEN <<i>> \o SelectIdx(s, keep, i + 1)
  ELSE SelectIdx(s, keep, i + 1)

\* String(x).trim() on the vocabulary of request strings
Trim(s) == IF s \in {"", " "} THEN "" ELSE s

\* ------------------------------------------------- request input validation
\* A quarter string "YYYY-Qn" is the record [year, q]; a month string
\* "YYYY-MM" is the record [year, m].  Out-of-pattern strings are the
\* records whose q or m is outside the pattern's range.
QUARTER_PATTERN(quarter) == quarter.q \in 1..4
MONTH_PATTERN(month) == month.m \in 1..12

expectedMonthsForQuarter(quarter) ==
  LET baseMonth == (quarter.q - 1) * 3 + 1
  IN  << [year |-> quarter.year, m |-> baseMonth],
         [year |-> quarter.year, m |-> baseMonth + 1],
         [year |-> quarter.year, m |-> baseMonth + 2] >>

\* lexicographic order of "YYYY-MM" strings
MonthLess(a, b) == a.year < b.year \/ (a.year = b.year /\ a.m < b.m)

\* Array.prototype.sort on three month strings
SortMonths(ms) ==
  CHOOSE t \in [1..Len(ms) -> Range(ms)] :
    /\ \A x \in Range(ms) :
         Cardinality({i \in DOMAIN ms : ms[i] = x}) =
         Cardinality({i \in DOMAIN t : t[i] = x})
    /\ \A i \in 1..(Len(ms) - 1) : ~MonthLess(t[i + 1], t[i])

\* the months compared in the order received
normalizeAndValidateMonthKeys_unsorted(quarter, monthKeys) ==
  IF Len(monthKeys) # 3 THEN [ok |-> FALSE, months |-> <<>>]
  ELSE IF Cardinality(Range(monthKeys)) # 3
    THEN [ok |-> FALSE, months |-> <<>>]
  ELSE IF \E i \in 1..3 : ~MONTH_PATTERN(monthKeys[i])
    THEN [ok |-> FALSE, months |-> <<>>]
  ELSE IF ~QUARTER_PATTERN(quarter)
    THEN [ok |-> FALSE, months |-> <<>>]
  ELSE IF monthKeys # expectedMonthsForQuarter(quarter)
    THEN [ok |-> FALSE, months |-> <<>>]
  ELSE [ok |-> TRUE, months |-> monthKeys]

normalizeAndValidateMonthKeys(quarter, monthKeys) ==
  IF Len(monthKeys) # 3 THEN [ok |-> FALSE, months |-> <<>>]
  ELSE LET normalized == SortMonths(monthKeys)
       IN  IF Cardinality(Range(normalized)) # 3
             THEN [ok |-> FALSE, months |-> <<>>]
           ELSE IF \E i \in 1..3 : ~MONTH_PATTERN(normalized[i])
             THEN [ok |-> FALSE, months |-> <<>>]
           ELSE IF ~QUARTER_PATTERN(quarter)
             THEN [ok |-> FALSE, months |-> <<>>]
           ELSE IF normalized # SortMonths(expectedMonthsForQuarter(quarter))
             THEN [ok |-> FALSE, months |-> <<>>]
           ELSE [ok |-> TRUE, months |-> normalized]

\* ---------------------------------------------------------- result bodies
\* every failure reported with status 500
Failure_always_500(http, run, stage, code) ==
  [ok |-> FALSE, httpStatus |-> 500, runId |-> run,
   failedStage |-> stage, errorCode |-> code]

Failure(http, run, stage, code) ==
  [ok |-> FALSE, httpStatus |-> http, runId |-> run,
   failedStage |-> stage, errorCode |-> code]

Success(run) ==
  [ok |-> TRUE, httpStatus |-> 200, runId |-> run,
   failedStage |-> NoStage, errorCode |-> "none"]

\* the promise of the orchestrator rejected: no result body at all
Uncaught ==
  [ok |-> FALSE, httpStatus |-> 0, runId |-> NoRun,
   failedStage |-> NoStage, errorCode |-> "uncaught_exception"]

NoResult ==
  [ok |-> FALSE, httpStatus |-> 0, runId |-> NoRun,
   failedStage |-> NoStage, errorCode |-> "pending"]

\* ------------------------------------------------- stored synthesis rows
\* Rows the orchestrator only reads.  Texts are vocabulary strings; "" and
\* " " are the texts that are blank after trim().
Q1 == [year |-> 2025, q |-> 1]
M(m) == [year |-> 2025, m |-> m]

\* "dan" is no employee; "cat" has no analysis context, "eve" no quarterly
\* synthesis, "fay" no March synthesis; every text stored for "gus" is blank
employees == {"ann", "bob", "cat", "eve", "fay", "gus"}

employeeAnalysisContext ==
  { [employeeEmail |-> "ann", managerEmail |-> "mgr",
     bonusEligible |-> FALSE, promotionEligible |-> TRUE],
    [employeeEmail |-> "bob", managerEmail |-> "mgr",
     bonusEligible |-> TRUE, promotionEligible |-> FALSE],
    [employeeEmail |-> "eve", managerEmail |-> "mgr",
     bonusEligible |-> TRUE, promotionEligible |-> TRUE],
    [employeeEmail |-> "fay", managerEmail |-> "mgr",
     bonusEligible |-> TRUE, promotionEligible |-> TRUE],
    [employeeEmail |-> "gus", managerEmail |-> "mgr",
     bonusEligible |-> TRUE, promotionEligible |-> TRUE] }

employeeQuarterlyInsights ==
  << [employeeEmail |-> "ann", quarter |-> Q1, createdAt |-> 1,
      trajectorySummary |-> "steady", keyStrengths |-> <<"", "reviews">>,
      keyConcerns |-> <<" ">>, burnoutAssessment |-> "",
      growthAssessment |-> "growing", retentionAssessment |-> " ",
      recommendedActions |-> <<>>,
      evidenceSnapshots |-> << [signalId |-> "S1", evidence |-> <<"prs merged">>] >>,
      confidenceLevel |-> "high", dataSufficiency |-> "partial"],
     [employeeEmail |-> "bob", quarter |-> Q1, createdAt |-> 2,
      trajectorySummary |-> "uneven", keyStrengths |-> <<>>,
      keyConcerns |-> <<"slow reviews">>, burnoutAssessment |-> "",
      growthAssessment |-> "", retentionAssessment |-> "",
      recommendedActions |-> <<>>, evidenceSnapshots |-> <<>>,
      confidenceLevel |-> "medium", dataSufficiency |-> "{}"],
     [employeeEmail |-> "fay", quarter |-> Q1, createdAt |-> 3,
      trajectorySummary |-> "steady", keyStrengths |-> <<>>,
      keyConcerns |-> <<>>, burnoutAssessment |-> "",
      growthAssessment |-> "", retentionAssessment |-> "",
      recommendedActions |-> <<>>, evidenceSnapshots |-> <<>>,
      confidenceLevel |-> "low", dataSufficiency |-> "insufficient"],
     [employeeEmail |-> "gus", quarter |-> Q1, createdAt |-> 4,
      trajectorySummary |-> " ", keyStrengths |-> <<"">>,
      keyConcerns |-> <<" ">>, burnoutAssessment |-> "",
      growthAssessment |-> "", retentionAssessment |-> " ",
      recommendedActions |-> <<>>,
      evidenceSnapshots |-> << [signalId |-> "S1", evidence |-> <<" ">>] >>,
      confidenceLevel |-> "low", dataSufficiency |-> "insufficient"],
     \* an earlier synthesis of ann's quarter, superseded by the row above
     [employeeEmail |-> "ann", quarter |-> Q1, createdAt |-> 0,
      trajectorySummary |-> "rising", keyStrengths |-> <<"ownership", "reviews">>,
      keyConcerns |-> <<"scope">>, burnoutAssessment |-> "none seen",
      growthAssessment |-> "growing", retentionAssessment |-> "stable",
      recommendedActions |-> <<"mentor">>,
      evidenceSnapshots |-> << [signalId |-> "S1", evidence |-> <<"prs merged">>] >>,
      confidenceLevel |-> "high", dataSufficiency |-> "sufficient"] >>

employeeMonthlyInsights ==
  << \* an earlier synthesis of ann's February, superseded by the row below
     [employeeEmail |-> "ann", month |-> M(2), createdAt |-> 0,
      overallSummary |-> "feb draft", identifiedRisks |-> <<"load", "churn">>,
      identifiedOpportunities |-> <<"pairing">>],
     [employeeEmail |-> "ann", month |-> M(1), createdAt |-> 1,
      overallSummary |-> "jan ok", identifiedRisks |-> <<>>,
      identifiedOpportunities |-> <<>>],
     [employeeEmail |-> "ann", month |-> M(2), createdAt |-> 2,
      overallSummary |-> " ", identifiedRisks |-> <<"load">>,
      identifiedOpportunities |-> <<>>],
     [employeeEmail |-> "ann", month |-> M(3), createdAt |-> 3,
      overallSummary |-> "mar ok", identifiedRisks |-> <<>>,
      identifiedOpportunities |-> <<>>],
     [employeeEmail |-> "bob", month |-> M(1), createdAt |-> 1,
      overallSummary |-> "", identifiedRisks |-> <<>>,
      identifiedOpportunities |-> <<>>],
     [employeeEmail |-> "bob", month |-> M(2), createdAt |-> 2,
      overallSummary |-> "", identifiedRisks |-> <<>>,
      identifiedOpportunities |-> <<>>],
     [employeeEmail |-> "bob", month |-> M(3), createdAt |-> 3,
      overallSummary |-> "", identifiedRisks |-> <<>>,
      identifiedOpportunities |-> <<>>],
     [employeeEmail |-> "fay", month |-> M(1), createdAt |-> 1,
      overallSummary |-> "jan ok", identifiedRisks |-> <<>>,
      identifiedOpportunities |-> <<>>],
     [employeeEmail |-> "fay", month |-> M(2), createdAt |-> 2,
      overallSummary |-> "feb ok", identifiedRisks |-> <<>>,
      identifiedOpportunities |-> <<>>],
     [employeeEmail |-> "gus", month |-> M(1), createdAt |-> 1,
      overallSummary |-> " ", identifiedRisks |-> <<" ">>,
      identifiedOpportunities |-> <<>>],
     [employeeEmail |-> "gus", month |-> M(2), createdAt |-> 2,
      overallSummary |-> "", identifiedRisks |-> <<>>,
      identifiedOpportunities |-> <<"">>],
     [employeeEmail |-> "gus", month |-> M(3), createdAt |-> 3,
      overallSummary |-> "", identifiedRisks |-> <<>>,
      identifiedOpportunities |-> <<>>] >>

\* ------------------------------------------------------- evidence catalog
Candidate(type, key, field, index, summary) ==
  [sourceType |-> type, sourceKey |-> key, field |-> field,
   index |-> index, summary |-> summary]

Indexed(type, key, field, texts) ==
  [i \in 1..Len(texts) |-> Candidate(type, key, field, i - 1, texts[i])]

RECURSIVE Flatten(_)
Flatten(ss) == IF ss = <<>> THEN <<>> ELSE Head(ss) \o Flatten(Tail(ss))

\* every candidate pushed, blank or not
RECURSIVE pushEntry_keeps_blank(_, _)
pushEntry_keeps_blank(entries, candidates) ==
  IF candidates = <<>> THEN entries
  ELSE LET c == Head(candidates)
       IN  pushEntry_keeps_blank(
             Append(entries,
               [id |-> Len(entries) + 1, sourceType |-> c.sourceType,
                sourceKey |-> c.sourceKey, field |-> c.field,
                index |-> c.index, summary |-> Trim(c.summary)]),
             Tail(candidates))

RECURSIVE pushEntry(_, _)
\* pushes the candidates in order; a summary blank after trim() is skipped
\* and takes no id; an entry's id E<n> is the number n
pushEntry(entries, candidates) ==
  IF candidates = <<>> THEN entries
  ELSE LET c == Head(candidates)
           trimmed == Trim(c.summary)
       IN  IF trimmed = "" THEN pushEntry(entries, Tail(candidates))
           ELSE pushEntry(
                  Append(entries,
                    [id |-> Len(entries) + 1, sourceType |-> c.sourceType,
                     sourceKey |-> c.sourceKey, field |-> c.field,
                     index |-> c.index, summary |-> trimmed]),
                  Tail(candidates))

buildEvidenceCatalog(quarter, quarterly, monthlyHistory) ==
  LET q(field, text) ==
        <<Candidate("quarterly_synthesis", quarter, field, 0, text)>>
      qs(field, texts) == Indexed("quarterly_synthesis", quarter, field, texts)
      snaps == Flatten([i \in 1..Len(quarterly.evidenceSnapshots) |->
                 Indexed("quarterly_synthesis", quarter,
                         quarterly.evidenceSnapshots[i].signalId,
                         quarterly.evidenceSnapshots[i].evidence)])
      months == Flatten([i \in 1..Len(monthlyHistory) |->
                 <<Candidate("monthly_synthesis", monthlyHistory[i].month,
                             "overallSummary", 0,
                             monthlyHistory[i].overallSummary)>>
                 \o Indexed("monthly_synthesis", monthlyHistory[i].month,
                            "identifiedRisks", monthlyHistory[i].identifiedRisks)
                 \o Indexed("monthly_synthesis", monthlyHistory[i].month,
                            "identifiedOpportunities",
                            monthlyHistory[i].identifiedOpportunities)])
  IN  pushEntry(<<>>,
        q("trajectorySummary", quarterly.trajectorySummary)
        \o qs("keyStrengths", quarterly.keyStrengths)
        \o qs("keyConcerns", quarterly.keyConcerns)
        \o q("burnoutAssessment", quarterly.burnoutAssessment)
        \o q("growthAssessment", quarterly.growthAssessment)
        \o q("retentionAssessment", quarterly.retentionAssessment)
        \o qs("recommendedActions", quarterly.recommendedActions)
        \o snaps \o months)

\* ------------------------------------------------ legacy data sufficiency
parseConfidenceLevel(raw) ==
  IF raw \in {"low", "medium", "high"} THEN raw ELSE "low"

inferDataSufficiencyFromConfidence(confidence) ==
  IF confidence = "high" THEN "sufficient"
  ELSE IF confidence = "medium" THEN "partial"
  ELSE "insufficient"

\* the level of the parsed dataSufficiency; a stored value that is not a
\* complete record (the column default '{}') is inferred from confidence
parseDataSufficiency(raw, confidence) ==
  IF raw \in {"sufficient", "partial", "insufficient"} THEN raw
  ELSE inferDataSufficiencyFromConfidence(confidence)

\* ---------------------------------------------------------- evidence load
\* a stored jsonb list as strings, empty strings filtered out
asStringArray(value) == SelectSeq(value, LAMBDA entry : entry # "")

\* rows of a table (as indexes) that satisfy a filter, newest first
\* order by created_at ascending
RECURSIVE NewestFirst_oldest_first(_, _)
NewestFirst_oldest_first(tbl, idxs) ==
  IF idxs = {} THEN <<>>
  ELSE LET top == CHOOSE i \in idxs :
                    \A j \in idxs : tbl[i].createdAt <= tbl[j].createdAt
       IN  <<tbl[top]>> \o NewestFirst_oldest_first(tbl, idxs \ {top})

RECURSIVE NewestFirst(_, _)
NewestFirst(tbl, idxs) ==
  IF idxs = {} THEN <<>>
  ELSE LET top == CHOOSE i \in idxs :
                    \A j \in idxs : tbl[j].createdAt <= tbl[i].createdAt
       IN  <<tbl[top]>> \o NewestFirst(tbl, idxs \ {top})

\* the reads after the running-run check: employee, context, quarterly
\* row, monthly rows, then the catalog.  The tables are not written while a run is in
\* flight, so the reads are one step.
LoadEvidence(employeeEmail, quarter, monthKeys) ==
  LET contextRows == {c \in employeeAnalysisContext :
                        c.employeeEmail = employeeEmail}
      quarterlyRows ==
        NewestFirst(employeeQuarterlyInsights,
          {i \in DOMAIN employeeQuarterlyInsights :
             /\ employeeQuarterlyInsights[i].employeeEmail = employeeEmail
             /\ employeeQuarterlyInsights[i].quarter = quarter})
      monthlyRows ==
        NewestFirst(employeeMonthlyInsights,
          {i \in DOMAIN employeeMonthlyInsights :
             /\ employeeMonthlyInsights[i].employeeEmail = employeeEmail
             /\ employeeMonthlyInsights[i].month \in Range(monthKeys)})
      latestMonthlyByMonth(month) ==
        LET hits == SelectIdx(monthlyRows,
                      {r \in Range(monthlyRows) : r.month = month}, 1)
        IN  IF hits = <<>> THEN <<>> ELSE <<monthlyRows[hits[1]]>>
      missingMonths == {i \in 1..3 : latestMonthlyByMonth(monthKeys[i]) = <<>>}
      fail(http, code) ==
        [ok |-> FALSE, failure |-> Failure(http, NoRun, "evidence_load", code),
         core |-> [evidenceCatalog |-> <<>>, dataSufficiency |-> "insufficient",
                   eligibility |-> [bonus |-> FALSE, promotion |-> FALSE]]]
  IN  IF employeeEmail \notin employees THEN fail(404, "employee_not_found")
      ELSE IF contextRows = {} THEN fail(422, "missing_analysis_context")
      ELSE IF quarterlyRows = <<>> THEN fail(409, "missing_quarterly_evidence")
      ELSE IF missingMonths # {} THEN fail(409, "missing_monthly_evidence")
      ELSE
        LET contextRow == CHOOSE c \in contextRows : TRUE
            quarterlyRow == quarterlyRows[1]
            quarterlyConfidence == parseConfidenceLevel(quarterlyRow.confidenceLevel)
            monthlyHistory ==
              [i \in 1..3 |->
                 [latestMonthlyByMonth(monthKeys[i])[1] EXCEPT
                    !.identifiedRisks = asStringArray(@),
                    !.identifiedOpportunities = asStringArray(@)]]
            quarterlySynthesis ==
              [quarterlyRow EXCEPT
                 !.keyStrengths = asStringArray(@),
                 !.keyConcerns = asStringArray(@),
                 !.recommendedActions = asStringArray(@)]
            catalog == buildEvidenceCatalog(quarter, quarterlySynthesis, monthlyHistory)
        IN  IF catalog = <<>> THEN fail(409, "empty_evidence_catalog")
            ELSE [ok |-> TRUE, failure |-> NoResult,
                  core |-> [evidenceCatalog |-> [i \in 1..Len(catalog) |-> catalog[i].id],
                            dataSufficiency |->
                              parseDataSufficiency(quarterlyRow.dataSufficiency,
                                                   quarterlyConfidence),
                            eligibility |->
                              [bonus |-> contextRow.bonusEligible,
                               promotion |-> contextRow.promotionEligible]]]

\* ------------------------------------------------------------ stage texts
\* A text is [body, refs]: refs are the ids inside its refs:[...] tokens,
\* in order.  An evidence ref "E<n>" is the number n; a string that does not
\* match /^E\d+$/ is a negative number.
Text(body, refs) == [body |-> body, refs |-> refs]

PEER_COMPARISON_PATTERN(text) ==
  text.body \in {"ahead of peers", "bonus compared to peers"}

EMPLOYEE_COMPENSATION_PATTERN(text) ==
  text.body \in {"about your bonus", "bonus compared to peers"}

evidenceRefSchema(ref) == ref >= 0

confidenceSchema(c) == c \in {"low", "medium", "high"}

normalizeConfidence(value, dataSufficiency) ==
  IF dataSufficiency = "insufficient" THEN "low"
  ELSE IF dataSufficiency = "partial" /\ value = "high" THEN "medium"
  ELSE value

sanitizePeerComparisonText(text, fallback) ==
  IF ~PEER_COMPARISON_PATTERN(text) THEN text ELSE fallback

\* the loop left after its first ref
ensureEvidenceRefsExist_first_only(refs, validRefs) ==
  refs = <<>> \/ refs[1] \in validRefs

\* TRUE when the loop over refs ends without throwing invalid_evidence_refs
ensureEvidenceRefsExist(refs, validRefs) ==
  \A i \in DOMAIN refs : refs[i] \in validRefs

parseCitationRefs(text) == text.refs

\* the refs checked, a text without refs let through
ensureCitationTokens_refs_only(text, validRefs) ==
  IF ~ensureEvidenceRefsExist(parseCitationRefs(text), validRefs)
    THEN "invalid_evidence_refs"
  ELSE "ok"

\* "ok", or the code of the ManagerAnalysisValidationError thrown
ensureCitationTokens(text, validRefs) ==
  IF Len(parseCitationRefs(text)) = 0 THEN "invalid_citations"
  ELSE IF ~ensureEvidenceRefsExist(parseCitationRefs(text), validRefs)
    THEN "invalid_evidence_refs"
  ELSE "ok"

\* ------------------------------------------------------- stage results
\* A generator response is [kind, json, usage]: kind "throw" is a rejected
\* generateTextOnce call, "garbage" a text with no parseable {...}, "json"
\* a parsed value json, whose field shape is "ok" when it has exactly the
\* fields of the stage schema.
StageFailed(code) == [ok |-> FALSE, code |-> code, output |-> <<>>, usage |-> NoUsage]
StageOk(output, usage) == [ok |-> TRUE, code |-> "ok", output |-> <<output>>, usage |-> usage]

debateArgumentSchema(a) ==
  /\ Len(a.evidenceRefs) >= 1
  /\ \A i \in DOMAIN a.evidenceRefs : evidenceRefSchema(a.evidenceRefs[i])

combinedDebateSchema(json) ==
  /\ json.shape = "ok"
  /\ Len(json.advocateAssessment.arguments) >= 1
  /\ \A i \in DOMAIN json.advocateAssessment.arguments :
       debateArgumentSchema(json.advocateAssessment.arguments[i])
  /\ confidenceSchema(json.advocateAssessment.confidence)
  /\ Len(json.examinerAssessment.arguments) >= 1
  /\ \A i \in DOMAIN json.examinerAssessment.arguments :
       debateArgumentSchema(json.examinerAssessment.arguments[i])
  /\ Len(json.examinerAssessment.risks) >= 1
  /\ confidenceSchema(json.examinerAssessment.confidence)

generateCombinedDebate(core, response) ==
  IF response.kind = "throw" THEN StageFailed("generator_error")
  ELSE IF response.kind = "garbage" THEN StageFailed("invalid_json")
  ELSE IF ~combinedDebateSchema(response.json) THEN StageFailed("invalid_schema")
  ELSE
    LET data == response.json
        evidenceRefSet == Range(core.evidenceCatalog)
        argsOk(arguments) ==
          \A i \in DOMAIN arguments :
            ensureEvidenceRefsExist(arguments[i].evidenceRefs, evidenceRefSet)
        sanitized(arguments, fallback) ==
          [i \in DOMAIN arguments |->
             [claim |-> sanitizePeerComparisonText(arguments[i].claim, fallback),
              evidenceRefs |-> arguments[i].evidenceRefs]]
    IN  IF ~argsOk(data.advocateAssessment.arguments)
          THEN StageFailed("invalid_evidence_refs")
        ELSE IF ~argsOk(data.examinerAssessment.arguments)
          THEN StageFailed("invalid_evidence_refs")
        ELSE StageOk(
          [advocateAssessment |->
             [arguments |-> sanitized(data.advocateAssessment.arguments,
                                      Text("stable positive impact", <<>>)),
              recommendation |-> data.advocateAssessment.recommendation,
              confidence |-> normalizeConfidence(data.advocateAssessment.confidence,
                                                 core.dataSufficiency)],
           examinerAssessment |->
             [arguments |-> sanitized(data.examinerAssessment.arguments,
                                      Text("potential risk to validate", <<>>)),
              risks |-> [i \in DOMAIN data.examinerAssessment.risks |->
                           sanitizePeerComparisonText(
                             data.examinerAssessment.risks[i],
                             Text("risk requires clarification", <<>>))],
              recommendation |-> data.examinerAssessment.recommendation,
              confidence |-> normalizeConfidence(data.examinerAssessment.confidence,
                                                 core.dataSufficiency)]],
          response.usage)

arbiterDecisionSchema(json) ==
  /\ json.shape = "ok"
  /\ json.finalRecommendation.bonus \in {"approve", "defer", "deny"}
  /\ json.finalRecommendation.promotion \in {"approve", "defer", "deny"}
  /\ Len(json.rationale) >= 1
  /\ Len(json.unresolvedQuestions) >= 1
  /\ confidenceSchema(json.confidence)

\* the eligibility test left out
coercedToDefer_never(eligible, recommendation) == FALSE

\* the test of the two eligibility blocks: an "approve" of someone who is
\* not eligible is set to "defer"
coercedToDefer(eligible, recommendation) ==
  ~eligible /\ recommendation = "approve"

\* the code of the first line whose citation check throws, "ok" if none
RECURSIVE FirstCitationError(_, _)
FirstCitationError(lines, validRefs) ==
  IF lines = <<>> THEN "ok"
  ELSE IF ensureCitationTokens(Head(lines), validRefs) # "ok"
    THEN ensureCitationTokens(Head(lines), validRefs)
  ELSE FirstCitationError(Tail(lines), validRefs)

generateArbiterDecision(core, response) ==
  IF response.kind = "throw" THEN StageFailed("generator_error")
  ELSE IF response.kind = "garbage" THEN StageFailed("invalid_json")
  ELSE IF ~arbiterDecisionSchema(response.json) THEN StageFailed("invalid_schema")
  ELSE
    LET data == response.json
        evidenceRefSet == Range(core.evidenceCatalog)
        \* evidenceCatalog[0]?.id: <<id>>, or <<>> when the catalog is empty
        fallbackRef == IF core.evidenceCatalog = <<>> THEN <<>>
                       ELSE <<core.evidenceCatalog[1]>>
        \* refs[0] ?? fallbackRef ?? "E1"
        safeRef(refs) == IF refs # <<>> THEN refs[1]
                         ELSE IF fallbackRef # <<>> THEN fallbackRef[1]
                         ELSE 1
        cited(lines, body) ==
          [i \in DOMAIN lines |->
             sanitizePeerComparisonText(lines[i],
               Text(body, <<safeRef(parseCitationRefs(lines[i]))>>))]
        bonusCoerced ==
          coercedToDefer(core.eligibility.bonus, data.finalRecommendation.bonus)
        promotionCoerced ==
          coercedToDefer(core.eligibility.promotion,
                         data.finalRecommendation.promotion)
    IN  IF FirstCitationError(data.rationale, evidenceRefSet) # "ok"
          THEN StageFailed(FirstCitationError(data.rationale, evidenceRefSet))
        ELSE IF FirstCitationError(data.notesForHR, evidenceRefSet) # "ok"
          THEN StageFailed(FirstCitationError(data.notesForHR, evidenceRefSet))
        ELSE StageOk(
          [finalRecommendation |->
             [bonus |-> IF bonusCoerced THEN "defer"
                        ELSE data.finalRecommendation.bonus,
              promotion |-> IF promotionCoerced THEN "defer"
                            ELSE data.finalRecommendation.promotion],
           rationale |-> cited(data.rationale, "uncertainty needs clarification"),
           unresolvedQuestions |->
             [i \in DOMAIN data.unresolvedQuestions |->
                sanitizePeerComparisonText(data.unresolvedQuestions[i],
                  Text("what additional context is needed", <<>>))],
           confidence |-> normalizeConfidence(data.confidence, core.dataSufficiency),
           notesForHR |->
             cited(data.notesForHR, "document without comparative framing")
             \o (IF bonusCoerced /\ fallbackRef # <<>>
                   THEN <<Text("bonus coerced to defer", fallbackRef)>>
                   ELSE <<>>)
             \o (IF promotionCoerced /\ fallbackRef # <<>>
                   THEN <<Text("promotion coerced to defer", fallbackRef)>>
                   ELSE <<>>)],
          response.usage)

employeePingSchema(p) ==
  /\ p.theme \in {"workload", "growth", "collaboration", "focus"}
  /\ Len(p.evidenceRefs) >= 1
  /\ \A i \in DOMAIN p.evidenceRefs : evidenceRefSchema(p.evidenceRefs[i])
  /\ confidenceSchema(p.confidence)

combinedGuidanceSchema(json) ==
  /\ json.shape = "ok"
  /\ Len(json.employeePings) >= 1
  /\ \A i \in DOMAIN json.employeePings : employeePingSchema(json.employeePings[i])
  /\ Len(json.managerCoaching.focusAreas) >= 1
  /\ Len(json.managerCoaching.evidenceRefs) >= 1
  /\ \A i \in DOMAIN json.managerCoaching.evidenceRefs :
       evidenceRefSchema(json.managerCoaching.evidenceRefs[i])
  /\ confidenceSchema(json.managerCoaching.confidence)

\* the compensation test applied to the message after sanitizing
RECURSIVE FirstPingError_after_sanitizing(_, _)
FirstPingError_after_sanitizing(pings, validRefs) ==
  IF pings = <<>> THEN "ok"
  ELSE IF EMPLOYEE_COMPENSATION_PATTERN(
            sanitizePeerComparisonText(Head(pings).message,
                                       Text("focus on one concrete next step", <<>>)))
    THEN "prohibited_content"
  ELSE IF ~ensureEvidenceRefsExist(Head(pings).evidenceRefs, validRefs)
    THEN "invalid_evidence_refs"
  ELSE FirstPingError_after_sanitizing(Tail(pings), validRefs)

\* the code thrown while mapping the pings in order, "ok" if none
RECURSIVE FirstPingError(_, _)
FirstPingError(pings, validRefs) ==
  IF pings = <<>> THEN "ok"
  ELSE IF EMPLOYEE_COMPENSATION_PATTERN(Head(pings).message)
    THEN "prohibited_content"
  ELSE IF ~ensureEvidenceRefsExist(Head(pings).evidenceRefs, validRefs)
    THEN "invalid_evidence_refs"
  ELSE FirstPingError(Tail(pings), validRefs)

generateCombinedGuidance(core, response) ==
  IF response.kind = "throw" THEN StageFailed("generator_error")
  ELSE IF response.kind = "garbage" THEN StageFailed("invalid_json")
  ELSE IF ~combinedGuidanceSchema(response.json) THEN StageFailed("invalid_schema")
  ELSE
    LET data == response.json
        evidenceRefSet == Range(core.evidenceCatalog)
    IN  IF FirstPingError(data.employeePings, evidenceRefSet) # "ok"
          THEN StageFailed(FirstPingError(data.employeePings, evidenceRefSet))
        ELSE IF ~ensureEvidenceRefsExist(data.managerCoaching.evidenceRefs,
                                         evidenceRefSet)
          THEN StageFailed("invalid_evidence_refs")
        ELSE StageOk(
          [employeePings |->
             [i \in DOMAIN data.employeePings |->
                [theme |-> data.employeePings[i].theme,
                 message |-> sanitizePeerComparisonText(
                               data.employeePings[i].message,
                               Text("focus on one concrete next step", <<>>)),
                 evidenceRefs |-> data.employeePings[i].evidenceRefs,
                 confidence |-> normalizeConfidence(data.employeePings[i].confidence,
                                                    core.dataSufficiency)]],
           managerCoaching |->
             [focusAreas |->
                [i \in DOMAIN data.managerCoaching.focusAreas |->
                   sanitizePeerComparisonText(data.managerCoaching.focusAreas[i],
                     Text("center on observed patterns", <<>>))],
              evidenceRefs |-> data.managerCoaching.evidenceRefs,
              confidence |-> normalizeConfidence(data.managerCoaching.confidence,
                                                 core.dataSufficiency)]],
          response.usage)

\* ------------------------------------------------------ insight generator
\* lib/ai/insightGenerator.  A date string "YYYY-MM-DD" is the record
\* [year, m, d].  The weekStart of a weekly row is a date string, a longer
\* timestamp string that starts with the date, or a Date of that day at
\* 00:00 UTC: [form, date].  In a generator answer it may also be the empty
\* string (form "empty") or no string at all (form "number").
WeekStart(form, date) == [form |-> form, date |-> date]

\* the Mondays of 2025, from January 6 on: week k starts on day 7k - 1
MonthEnds == <<31, 59, 90, 120, 151, 181, 212, 243, 273, 304, 334, 365>>

Monday(k) ==
  LET dayOfYear == 7 * k - 1
      month == CHOOSE i \in 1..12 :
                 /\ dayOfYear <= MonthEnds[i]
                 /\ (i = 1 \/ dayOfYear > MonthEnds[i - 1])
  IN  [year |-> 2025, m |-> month,
       d |-> IF month = 1 THEN dayOfYear ELSE dayOfYear - MonthEnds[month - 1]]

\* value.slice(0, 10), or value.toISOString().slice(0, 10)
toISODate(value) == value.date

\* "YYYY-MM" of a date string
monthKey(dateStr) == [year |-> dateStr.year, m |-> dateStr.m]

\* "YYYY-Qn" of a date string
quarterKey(dateStr) ==
  [year |-> dateStr.year, q |-> ((dateStr.m - 1) \div 3) + 1]

\* the month threshold of a full month off by one
assessDataSufficiency_five_weeks(periodType, githubWeekly, slackWeekly) ==
  LET weekSet == {toISODate(githubWeekly[i].weekStart) : i \in DOMAIN githubWeekly}
                   \cup {toISODate(slackWeekly[i].weekStart) : i \in DOMAIN slackWeekly}
      weeks == Cardinality(weekSet)
      months == Cardinality({monthKey(week) : week \in weekSet})
      sources == [github |-> Len(githubWeekly) > 0, slack |-> Len(slackWeekly) > 0]
      at(level) == [level |-> level, weeks |-> weeks, months |-> months,
                    sources |-> sources]
  IN  IF weeks = 0 THEN at("insufficient")
      ELSE IF periodType = "month"
        THEN IF weeks < 4 THEN at("insufficient")
             ELSE IF ~sources.github \/ ~sources.slack \/ weeks <= 5 THEN at("partial")
             ELSE at("sufficient")
      ELSE IF months < 3 \/ weeks < 10 THEN at("insufficient")
      ELSE IF ~sources.github \/ ~sources.slack \/ weeks < 12 THEN at("partial")
      ELSE at("sufficient")

\* full quarterly coverage taken to be twelve weeks exactly
assessDataSufficiency_twelve_exactly(periodType, githubWeekly, slackWeekly) ==
  LET weekSet == {toISODate(githubWeekly[i].weekStart) : i \in DOMAIN githubWeekly}
                   \cup {toISODate(slackWeekly[i].weekStart) : i \in DOMAIN slackWeekly}
      weeks == Cardinality(weekSet)
      months == Cardinality({monthKey(week) : week \in weekSet})
      sources == [github |-> Len(githubWeekly) > 0, slack |-> Len(slackWeekly) > 0]
      at(level) == [level |-> level, weeks |-> weeks, months |-> months,
                    sources |-> sources]
  IN  IF weeks = 0 THEN at("insufficient")
      ELSE IF periodType = "month"
        THEN IF weeks < 4 THEN at("insufficient")
             ELSE IF ~sources.github \/ ~sources.slack \/ weeks < 5 THEN at("partial")
             ELSE at("sufficient")
      ELSE IF months < 3 \/ weeks < 10 THEN at("insufficient")
      ELSE IF ~sources.github \/ ~sources.slack \/ weeks # 12 THEN at("partial")
      ELSE at("sufficient")

\* the DataSufficiency of a period: [level, weeks, months, sources]
assessDataSufficiency(periodType, githubWeekly, slackWeekly) ==
  LET weekSet == {toISODate(githubWeekly[i].weekStart) : i \in DOMAIN githubWeekly}
                   \cup {toISODate(slackWeekly[i].weekStart) : i \in DOMAIN slackWeekly}
      weeks == Cardinality(weekSet)
      months == Cardinality({monthKey(week) : week \in weekSet})
      sources == [github |-> Len(githubWeekly) > 0, slack |-> Len(slackWeekly) > 0]
      at(level) == [level |-> level, weeks |-> weeks, months |-> months,
                    sources |-> sources]
  IN  IF weeks = 0 THEN at("insufficient")
      ELSE IF periodType = "month"
        THEN IF weeks < 4 THEN at("insufficient")
             ELSE IF ~sources.github \/ ~sources.slack \/ weeks < 5 THEN at("partial")
             ELSE at("sufficient")
      ELSE IF months < 3 \/ weeks < 10 THEN at("insufficient")
      ELSE IF ~sources.github \/ ~sources.slack \/ weeks < 12 THEN at("partial")
      ELSE at("sufficient")

\* ---------------------------------------------- values of unknown type
\* What JSON.parse gives is of unknown type.  A value the code tests with
\* typeof ... === "string" is a string of the vocabulary, or one of the
\* NotStrings (written in angle brackets) when it is no string.  A value
\* tested with Array.isArray is [isArray, items]; a value tested for being
\* an object is a record with isObject.  An id string "S<n>" is the number
\* n, any other non-blank id string a number above 100, a blank one 0.
NotStrings == {"<undefined>", "<number>"}

IsString(value) == value \notin NotStrings

Arr(items) == [isArray |-> TRUE, items |-> items]
NotArr == [isArray |-> FALSE, items |-> <<>>]
NotObj == [isObject |-> FALSE]

DIMENSIONS == <<"Execution", "Engagement", "Collaboration", "Growth">>

RECURSIVE FlattenSeq(_)
FlattenSeq(seqs) ==
  IF seqs = <<>> THEN <<>> ELSE Head(seqs) \o FlattenSeq(Tail(seqs))

\* an entry passes the three checks of sanitizeEvidence
ValidEvidenceEntry(entry) ==
  /\ entry.isObject
  /\ entry.source \in {"github_weekly_activity", "slack_weekly_activity"}
  /\ entry.weekStart.form \in {"string", "timestamp"}
  /\ IsString(entry.summary) /\ entry.summary # ""

\* every entry of an array kept, checked or not
sanitizeEvidence_unfiltered(evidence) ==
  IF ~evidence.isArray THEN <<>>
  ELSE [i \in DOMAIN evidence.items |->
          IF evidence.items[i].isObject
            THEN [source |-> evidence.items[i].source,
                  weekStart |-> evidence.items[i].weekStart.date,
                  fields |-> evidence.items[i].fields.items,
                  summary |-> evidence.items[i].summary]
            ELSE [source |-> "", weekStart |-> "", fields |-> <<>>, summary |-> ""]]

\* the entries that are objects with a known source, a non-empty weekStart
\* string and a non-empty summary string, weekStart cut to its date
sanitizeEvidence(evidence) ==
  IF ~evidence.isArray THEN <<>>
  ELSE LET kept == SelectSeq(evidence.items, ValidEvidenceEntry)
       IN  [i \in DOMAIN kept |->
              [source |-> kept[i].source,
               weekStart |-> kept[i].weekStart.date,
               fields |-> kept[i].fields.items,
               summary |-> kept[i].summary]]

sanitizeSignalStatement(value) ==
  IF IsString(value) /\ Trim(value) # "" THEN Trim(value)
  ELSE "Insufficient data to derive a specific signal."

\* S<counter>, seen or not
NextFreeId_unchecked(counter, seenIds) == counter

\* the first S<counter> not seen yet
RECURSIVE NextFreeId(_, _)
NextFreeId(counter, seenIds) ==
  IF counter \in seenIds THEN NextFreeId(counter + 1, seenIds) ELSE counter

\* the loop over the raw signals of one dimension, then of the next
RECURSIVE NormalizeLoop(_, _, _, _)
NormalizeLoop(pending, signals, seenIds, counter) ==
  IF pending = <<>> THEN signals
  ELSE
    LET dimension == Head(pending)[1]
        rawSignal == Head(pending)[2]
    IN  IF ~rawSignal.isObject
          THEN NormalizeLoop(Tail(pending), signals, seenIds, counter)
        ELSE
          LET evidence == sanitizeEvidence(rawSignal.evidence)
              given == IF rawSignal.signalId > 0 THEN rawSignal.signalId ELSE 0
              fresh == given = 0 \/ given \in seenIds
              candidateId == IF fresh THEN NextFreeId(counter, seenIds) ELSE given
          IN  IF Len(evidence) = 0
                THEN NormalizeLoop(Tail(pending), signals, seenIds, counter)
              ELSE NormalizeLoop(Tail(pending),
                     Append(signals,
                       [id |-> candidateId, dimension |-> dimension,
                        statement |-> sanitizeSignalStatement(rawSignal.statement),
                        evidence |-> evidence]),
                     seenIds \cup {candidateId},
                     IF fresh THEN candidateId + 1 ELSE counter)

\* the raw signals of a record of unknown type, as <<dimension, rawSignal>>
\* pairs in the order the loops visit them
PendingSignals(record) ==
  IF ~record.isObject THEN <<>>
  ELSE FlattenSeq([d \in DOMAIN DIMENSIONS |->
         IF ~record[DIMENSIONS[d]].isArray THEN <<>>
         ELSE [i \in DOMAIN record[DIMENSIONS[d]].items |->
                 <<DIMENSIONS[d], record[DIMENSIONS[d]].items[i]>>]])

Grouped(allSignals) ==
  [signalsByDimension |->
     [dimension \in Range(DIMENSIONS) |->
        SelectSeq(allSignals, LAMBDA signal : signal.dimension = dimension)],
   allSignals |-> allSignals]

\* [signalsByDimension, allSignals] of the single-pass answer
normalizeSignalsByDimension(rawSignals) ==
  Grouped(NormalizeLoop(PendingSignals(rawSignals), <<>>, {}, 1))

\* the loop of extractSignals: ids S1, S2, ... in the order kept
RECURSIVE ExtractLoop(_, _)
ExtractLoop(pending, signals) ==
  IF pending = <<>> THEN signals
  ELSE
    LET dimension == Head(pending)[1]
        rawSignal == Head(pending)[2]
        evidence == IF rawSignal.isObject THEN sanitizeEvidence(rawSignal.evidence)
                    ELSE <<>>
    IN  IF Len(evidence) = 0 THEN ExtractLoop(Tail(pending), signals)
        ELSE ExtractLoop(Tail(pending),
               Append(signals,
                 [id |-> Len(signals) + 1, dimension |-> dimension,
                  statement |-> sanitizeSignalStatement(rawSignal.statement),
                  evidence |-> evidence]))

\* normalizeConfidence of the insight generator with the coverage ignored
insightConfidence_unbounded(value, sufficiency, hasSignals) ==
  IF value \in {"low", "medium", "high"}
    THEN IF ~hasSignals THEN "low" ELSE value
  ELSE IF ~hasSignals THEN "low" ELSE "medium"

\* the level of the coverage taken as the confidence
insightConfidence_level_only(value, sufficiency, hasSignals) ==
  IF ~hasSignals \/ sufficiency.level = "insufficient" THEN "low"
  ELSE IF sufficiency.level = "partial" THEN "medium"
  ELSE IF value \in {"low", "medium", "high"} THEN value
  ELSE "medium"

\* normalizeConfidence(value, dataSufficiency, hasSignals) of the insight
\* generator (the stage functions have their own, of two parameters)
insightConfidence(value, sufficiency, hasSignals) ==
  IF value \in {"low", "medium", "high"}
    THEN IF sufficiency.level = "insufficient" /\ value # "low" THEN "low"
         ELSE IF ~hasSignals /\ value # "low" THEN "low"
         ELSE IF sufficiency.level = "partial" /\ value = "high" THEN "medium"
         ELSE value
  ELSE IF ~hasSignals \/ sufficiency.level = "insufficient" THEN "low"
  ELSE IF sufficiency.level = "partial" THEN "medium"
  ELSE "medium"

toLowerCase(dimension) ==
  CASE dimension = "Execution" -> "execution"
    [] dimension = "Engagement" -> "engagement"
    [] dimension = "Collaboration" -> "collaboration"
    [] dimension = "Growth" -> "growth"

buildInsufficientInsight(dimension) ==
  "Insufficient data to generate a reliable " \o toLowerCase(dimension)
    \o " insight for this period."

\* the vocabulary texts in which "insufficient", "limited" or "uncertain"
\* occurs, case ignored
MentionsUncertainty(text) ==
  text \in {"coverage is limited",
            "Summary unavailable due to insufficient or unclear signals.",
            "Trajectory summary unavailable due to insufficient or unclear signals.",
            "Burnout assessment unavailable due to insufficient or unclear signals.",
            "Growth assessment unavailable due to insufficient or unclear signals.",
            "Retention assessment unavailable due to insufficient or unclear signals."}

ensureUncertaintyNote(text, sufficiency) ==
  IF sufficiency.level # "insufficient" THEN text
  ELSE IF MentionsUncertainty(text) THEN text
  ELSE text \o " Data coverage is insufficient, so this insight is uncertain."

\* typeof value === "string" && value.trim().length > 0 ? value.trim() : fallback
TextOr(value, fallback) ==
  IF IsString(value) /\ Trim(value) # "" THEN Trim(value) ELSE fallback

\* Array.isArray(value) ? value.map(String).filter(Boolean) : []
StringList(value) ==
  IF ~value.isArray THEN <<>> ELSE SelectSeq(value.items, LAMBDA item : item # "")

\* one dimension of normalizeDimensionInsightsFromRaw and of reasonByDimension
DimensionInsight(dimension, record, signalsByDimension, sufficiency) ==
  LET signals == signalsByDimension[dimension]
      validIds == {signals[i].id : i \in DOMAIN signals}
      rawInsight == IF record.isObject /\ record[dimension].isObject
                      THEN record[dimension]
                      ELSE [isObject |-> TRUE, insight |-> "<undefined>",
                            supportingSignalIds |-> NotArr,
                            confidence |-> "<undefined>"]
      supportingSignalIds ==
        IF rawInsight.supportingSignalIds.isArray
          THEN SelectSeq(rawInsight.supportingSignalIds.items,
                         LAMBDA id : id \in validIds)
          ELSE <<>>
      hasSignals == Len(signals) > 0
      insightText ==
        TextOr(rawInsight.insight,
               IF hasSignals
                 THEN dimension \o " signals were observed but require manual review for narrative synthesis."
                 ELSE buildInsufficientInsight(dimension))
  IN  [insight |-> IF hasSignals THEN ensureUncertaintyNote(insightText, sufficiency)
                   ELSE buildInsufficientInsight(dimension),
       supportingSignalIds |->
         IF Len(supportingSignalIds) > 0 THEN supportingSignalIds
         ELSE IF hasSignals THEN [i \in DOMAIN signals |-> signals[i].id]
         ELSE <<>>,
       confidence |-> insightConfidence(rawInsight.confidence, sufficiency, hasSignals)]

normalizeDimensionInsightsFromRaw(rawDimensionInsights, signalsByDimension, sufficiency) ==
  [dimension \in Range(DIMENSIONS) |->
     DimensionInsight(dimension, rawDimensionInsights, signalsByDimension, sufficiency)]

\* The synthesis records are given without model and modelVersion, which
\* are the same two constants in every one.
MonthlyFallback ==
  [overallSummary |->
     "Insufficient data to generate a reliable monthly summary for this period.",
   identifiedRisks |-> <<>>,
   identifiedOpportunities |-> <<>>,
   confidence |-> "low"]

QuarterlyFallback ==
  [trajectorySummary |->
     "Insufficient data to generate a reliable quarterly trajectory summary for this period.",
   keyStrengths |-> <<>>,
   keyConcerns |-> <<>>,
   burnoutAssessment |-> "Insufficient data to assess burnout risk for this period.",
   growthAssessment |-> "Insufficient data to assess growth trends for this period.",
   retentionAssessment |->
     "Insufficient data to assess retention risk for this period.",
   recommendedActions |-> <<>>,
   evidenceSnapshots |-> <<>>,
   confidence |-> "low"]

\* the synthesis fields of a monthly answer, signals present
MonthlyFields(record, sufficiency, allSignals) ==
  [overallSummary |->
     ensureUncertaintyNote(
       TextOr(record.overallSummary,
              "Summary unavailable due to insufficient or unclear signals."),
       sufficiency),
   identifiedRisks |-> StringList(record.identifiedRisks),
   identifiedOpportunities |-> StringList(record.identifiedOpportunities),
   confidence |-> insightConfidence(record.confidence, sufficiency,
                                    Len(allSignals) > 0)]

normalizeMonthlySynthesisFromRaw(record, sufficiency, allSignals) ==
  IF Len(allSignals) = 0 THEN MonthlyFallback
  ELSE MonthlyFields(record, sufficiency, allSignals)

\* snapshots that are objects with a signalId string and a dimension
EvidenceSnapshots(value) ==
  IF ~value.isArray THEN <<>>
  ELSE LET kept == SelectSeq(value.items,
                     LAMBDA snapshot :
                       /\ snapshot.isObject
                       /\ snapshot.signalId > 0
                       /\ snapshot.dimension \in Range(DIMENSIONS))
       IN  [i \in DOMAIN kept |->
              [signalId |-> kept[i].signalId, dimension |-> kept[i].dimension,
               evidence |-> sanitizeEvidence(kept[i].evidence)]]

QuarterlyFields(record, sufficiency, allSignals) ==
  [trajectorySummary |->
     ensureUncertaintyNote(
       TextOr(record.trajectorySummary,
              "Trajectory summary unavailable due to insufficient or unclear signals."),
       sufficiency),
   keyStrengths |-> StringList(record.keyStrengths),
   keyConcerns |-> StringList(record.keyConcerns),
   burnoutAssessment |->
     ensureUncertaintyNote(
       TextOr(record.burnoutAssessment,
              "Burnout assessment unavailable due to insufficient or unclear signals."),
       sufficiency),
   growthAssessment |->
     ensureUncertaintyNote(
       TextOr(record.growthAssessment,
              "Growth assessment unavailable due to insufficient or unclear signals."),
       sufficiency),
   retentionAssessment |->
     ensureUncertaintyNote(
       TextOr(record.retentionAssessment,
              "Retention assessment unavailable due to insufficient or unclear signals."),
       sufficiency),
   recommendedActions |-> StringList(record.recommendedActions),
   evidenceSnapshots |-> EvidenceSnapshots(record.evidenceSnapshots),
   confidence |-> insightConfidence(record.confidence, sufficiency,
                                    Len(allSignals) > 0)]

normalizeQuarterlySynthesisFromRaw(record, sufficiency, allSignals) ==
  IF Len(allSignals) = 0 THEN QuarterlyFallback
  ELSE QuarterlyFields(record, sufficiency, allSignals)

\* A generator answer is [kind, json]: kind "throw" is a rejected
\* generateTextOnce call, "garbage" a text parseJson throws on, "null" the
\* text "null", "json" a text that parses to the object json.
Threw == [ok |-> FALSE, output |-> <<>>]
Returned(output) == [ok |-> TRUE, output |-> <<output>>]

\* generateMonthlyInsightsSinglePass / generateQuarterlyInsightsSinglePass
generateInsightsSinglePass(type, github, slack, answer) ==
  IF answer.kind # "json" THEN Threw
  ELSE
    LET sufficiency == assessDataSufficiency(type, github, slack)
        normalized == normalizeSignalsByDimension(answer.json.signalsByDimension)
    IN  Returned(
          [signalsByDimension |-> normalized.signalsByDimension,
           allSignals |-> normalized.allSignals,
           dimensionInsights |->
             normalizeDimensionInsightsFromRaw(answer.json.dimensionInsights,
               normalized.signalsByDimension, sufficiency),
           synthesis |->
             IF type = "month"
               THEN normalizeMonthlySynthesisFromRaw(answer.json, sufficiency,
                                                     normalized.allSignals)
               ELSE normalizeQuarterlySynthesisFromRaw(answer.json, sufficiency,
                                                       normalized.allSignals),
           dataSufficiency |-> sufficiency])

extractSignals(type, github, slack, answer) ==
  IF answer.kind # "json" THEN Threw
  ELSE
    LET grouped == Grouped(ExtractLoop(PendingSignals(answer.json.dimensions), <<>>))
    IN  Returned(
          [signalsByDimension |-> grouped.signalsByDimension,
           allSignals |-> grouped.allSignals,
           dataSufficiency |-> assessDataSufficiency(type, github, slack)])

reasonByDimension(signalsByDimension, sufficiency, answer) ==
  IF answer.kind # "json" THEN Threw
  ELSE Returned(
         [dimensions |->
            [dimension \in Range(DIMENSIONS) |->
               DimensionInsight(dimension, answer.json.dimensions,
                                signalsByDimension, sufficiency)]])

synthesizeInsights(type, signalsByDimension, sufficiency, answer) ==
  LET allSignals == FlattenSeq([d \in DOMAIN DIMENSIONS |->
                                  signalsByDimension[DIMENSIONS[d]]])
  IN  IF answer.kind \in {"throw", "garbage"} THEN Threw
      ELSE IF Len(allSignals) = 0
        THEN Returned(IF type = "month" THEN MonthlyFallback ELSE QuarterlyFallback)
      ELSE IF answer.kind = "null" THEN Threw
      ELSE Returned(IF type = "month"
                      THEN MonthlyFields(answer.json, sufficiency, allSignals)
                      ELSE QuarterlyFields(answer.json, sufficiency, allSignals))

\* ------------------------------------------------- requests and responses
\* the requests clients send
ReqInputs ==
  { [employeeEmail |-> "ann", quarter |-> Q1, monthKeys |-> <<M(3), M(1), M(2)>>],
    [employeeEmail |-> "bob", quarter |-> Q1, monthKeys |-> <<M(1), M(2), M(3)>>],
    [employeeEmail |-> "cat", quarter |-> Q1, monthKeys |-> <<M(1), M(2), M(3)>>],
    [employeeEmail |-> "ann", quarter |-> Q1, monthKeys |-> <<M(1), M(2), M(4)>>],
    [employeeEmail |-> " ", quarter |-> Q1, monthKeys |-> <<M(1), M(2), M(3)>>] }

\* the bodies a single caller may post.  For one employee and quarter:
\* every list of three months out of 1..MaxMonth, lists of other lengths
\* and a month outside the pattern; the months of two quarters under
\* another quarter and under a string that is no quarter; and the
\* quarter's own months for every other employee
Q2 == [year |-> 2025, q |-> 2]
BadQuarter == [year |-> 2025, q |-> 5]

MonthKeyLists ==
  [1..3 -> {M(m) : m \in 1..MaxMonth}]
    \cup { <<>>, <<M(1), M(2)>>, <<M(1), M(2), M(3), M(3)>>, <<M(1), M(2), M(13)>>,
           <<[year |-> 2024, m |-> 1], M(2), M(3)>> }

AllBodies ==
  { [employeeEmail |-> "ann", quarter |-> Q1, monthKeys |-> monthKeys] :
      monthKeys \in MonthKeyLists }
    \cup
  { [employeeEmail |-> "ann", quarter |-> quarter, monthKeys |-> monthKeys] :
      quarter \in {Q2, BadQuarter},
      monthKeys \in { <<M(1), M(2), M(3)>>, <<M(6), M(4), M(5)>> } }
    \cup
  { [employeeEmail |-> employeeEmail, quarter |-> Q1,
     monthKeys |-> <<M(1), M(2), M(3)>>] :
      employeeEmail \in {"", " ", "cat", "dan", "eve", "fay", "gus"} }

Recommendation == [bonus |-> "yes", promotion |-> "not_ready"]

DebateJson(advocateRefs) ==
  [shape |-> "ok",
   advocateAssessment |->
     [arguments |-> << [claim |-> Text("ahead of peers", <<>>),
                        evidenceRefs |-> advocateRefs] >>,
      recommendation |-> Recommendation, confidence |-> "high"],
   examinerAssessment |->
     [arguments |-> << [claim |-> Text("reviews are slow", <<>>),
                        evidenceRefs |-> <<1>>] >>,
      risks |-> <<Text("sustained load", <<>>)>>,
      recommendation |-> Recommendation, confidence |-> "medium"]]

\* what the generator may answer to the debate prompt
DebateResponses ==
  { [kind |-> "throw", json |-> <<>>, usage |-> NoUsage],
    [kind |-> "garbage", json |-> <<>>, usage |-> 5],
    [kind |-> "json", json |-> DebateJson(<<1>>), usage |-> 5],
    [kind |-> "json", json |-> DebateJson(<<1, 99>>), usage |-> 5] }

ArbiterJson(rationale) ==
  [shape |-> "ok",
   finalRecommendation |-> [bonus |-> "approve", promotion |-> "approve"],
   rationale |-> <<rationale>>,
   unresolvedQuestions |-> <<Text("is the load temporary", <<>>)>>,
   confidence |-> "high",
   notesForHR |-> <<Text("note", <<1>>)>>]

ArbiterResponses ==
  { [kind |-> "json", json |-> ArbiterJson(Text("solid quarter", <<1>>)), usage |-> 6],
    [kind |-> "json", json |-> ArbiterJson(Text("solid quarter", <<>>)), usage |-> 6] }

GuidanceJson(messages) ==
  [shape |-> "ok",
   employeePings |->
     [i \in DOMAIN messages |->
        [theme |-> "growth", message |-> Text(messages[i], <<>>),
         evidenceRefs |-> <<1>>, confidence |-> "high"]],
   managerCoaching |->
     [focusAreas |-> <<Text("pairing", <<>>)>>,
      evidenceRefs |-> <<1>>, confidence |-> "high"]]

GuidanceResponses ==
  { [kind |-> "json", json |-> GuidanceJson(<<"next step", "ahead of peers">>),
     usage |-> 7],
    [kind |-> "json", json |-> GuidanceJson(<<"next step", "about your bonus">>),
     usage |-> NoUsage] }

\* ------------------------------------------------------------ storage
\* the running-run check left out
ExistingRun_unchecked(rs, employeeEmail, quarter) == {}

\* the select without the status filter
ExistingRun_any_status(rs, employeeEmail, quarter) ==
  {id \in DOMAIN rs : /\ rs[id].employeeEmail = employeeEmail
                      /\ rs[id].quarter = quarter}

\* analysis_run rows: the row with id n is runs[n]
ExistingRun(rs, employeeEmail, quarter) ==
  {id \in DOMAIN rs : /\ rs[id].employeeEmail = employeeEmail
                      /\ rs[id].quarter = quarter
                      /\ rs[id].status = "running"}

\* the table without the partial unique index
analysis_run_without_active_idx(rs, employeeEmail, quarter) == TRUE

\* analysis_run_active_employee_quarter_idx accepts the new running row
analysis_run_active_employee_quarter_idx(rs, employeeEmail, quarter) ==
  ~\E id \in DOMAIN rs : /\ rs[id].employeeEmail = employeeEmail
                         /\ rs[id].quarter = quarter
                         /\ rs[id].status = "running"

NewRun(employeeEmail, quarter, usage) ==
  [employeeEmail |-> employeeEmail, quarter |-> quarter, status |-> "running",
   failedStage |-> NoStage, failureReason |-> "none", stageUsage |-> usage,
   completedAt |-> FALSE]

\* the update keyed by employee and quarter instead of the run id
markRunFailed_by_pair(rs, id, failedStage, message, usage) ==
  [i \in DOMAIN rs |->
     IF rs[i].employeeEmail = rs[id].employeeEmail /\ rs[i].quarter = rs[id].quarter
       THEN [rs[i] EXCEPT !.status = "failed", !.failedStage = failedStage,
                          !.failureReason = message, !.stageUsage = usage,
                          !.completedAt = TRUE]
       ELSE rs[i]]

\* the update without the stageUsage column
markRunFailed_without_usage(rs, id, failedStage, message, usage) ==
  [i \in DOMAIN rs |->
     IF i = id
       THEN [rs[i] EXCEPT !.status = "failed", !.failedStage = failedStage,
                          !.failureReason = message, !.completedAt = TRUE]
       ELSE rs[i]]

markRunFailed(rs, id, failedStage, message, usage) ==
  [i \in DOMAIN rs |->
     IF i = id
       THEN [rs[i] EXCEPT !.status = "failed", !.failedStage = failedStage,
                          !.failureReason = message, !.stageUsage = usage,
                          !.completedAt = TRUE]
       ELSE rs[i]]

updateRunUsage(rs, id, usage) ==
  [i \in DOMAIN rs |->
     IF i = id THEN [rs[i] EXCEPT !.stageUsage = usage] ELSE rs[i]]

\* the final update without completedAt
completeRun_status_only(rs, id, usage) ==
  [i \in DOMAIN rs |->
     IF i = id THEN [rs[i] EXCEPT !.status = "completed", !.stageUsage = usage]
     ELSE rs[i]]

completeRun(rs, id, usage) ==
  [i \in DOMAIN rs |->
     IF i = id
       THEN [rs[i] EXCEPT !.status = "completed", !.completedAt = TRUE,
                          !.stageUsage = usage]
       ELSE rs[i]]

\* analysis_debate_response_run_agent_idx accepts the new rows
analysis_debate_response_run_agent_idx(tbl, rows) ==
  /\ \A i \in DOMAIN rows : \A old \in BagToSet(tbl) :
       ~(old.runId = rows[i].runId /\ old.agentRole = rows[i].agentRole)
  /\ \A i, j \in DOMAIN rows :
       i # j => ~(rows[i].runId = rows[j].runId /\ rows[i].agentRole = rows[j].agentRole)

\* a unique index on run_id alone (arbiter decision, manager feedback)
UniqueRunIdx(tbl, id) == \A old \in BagToSet(tbl) : old.runId # id

EmptyUsage == [debate |-> NoUsage, arbiter |-> NoUsage, guidance |-> NoUsage]
NoCore == [evidenceCatalog |-> <<>>, dataSufficiency |-> "insufficient",
           eligibility |-> [bonus |-> FALSE, promotion |-> FALSE]]
NoReq == [employeeEmail |-> "", quarter |-> Q1, monthKeys |-> <<>>]
\* no answer of the generator yet
NoRaw == [kind |-> "none"]
\* no signal in any dimension
NoSignals == [dimension \in Range(DIMENSIONS) |-> <<>>]
NoFailure == [failedStage |-> NoStage, errorCode |-> "none", message |-> "none"]

\* -------------------------------------------------------- rate limiter
\* the queue keys in use and the minIntervalMs values callers pass
Keys == {"manager-analysis", "insights"}
Intervals == {1, 2}

\* Date.now() when the process starts: later than any interval after 0
Epoch == 2

\* ------------------------------------------------------------- state
VARIABLES
  runs,              \* analysis_run
  debateResponses,   \* analysis_debate_response
  arbiterDecisions,  \* analysis_arbiter_decision
  employeePrompts,   \* employee_prompt
  managerFeedbacks,  \* manager_feedback
  genLog,            \* per run id: the generator calls made, [stage, ok, code]
  pc,                \* per client: the await its request is suspended at
  body,              \* per client: body of the last request, as received
  req,               \* per client: normalized request
  core,              \* per client: coreInput
  runId,             \* per client: id of the inserted run, NoRun before
  stageUsage,        \* per client: the stageUsage object of the request
  debateStage,       \* per client: <<debate output>> once returned
  arbiterStage,      \* per client: <<arbiter output>> once returned
  guidanceStage,     \* per client: <<guidance output>> once returned
  failing,           \* per client: arguments of the pending markRunFailed
  result,            \* per client: what the last request returned
  nStarted,          \* requests started so far
  nFaults,           \* storage writes that have thrown so far
  now,               \* Date.now()
  queueByKey,        \* per key: the call whose promise is the tail, 0 if none
  lastCallAtByKey,   \* per key: when the last wrapped operation settled
  calls,             \* the calls of runWithLlmRateLimit, in invocation order
  lastStartAtByKey,  \* per key: when the last wrapped operation started, 0 if none
  insightPc,         \* where the call of an insight-generator function is
  periodType,        \* its periodType
  githubWeekly,      \* its githubWeekly rows
  slackWeekly,       \* its slackWeekly rows
  dataSufficiency,   \* <<the DataSufficiency assessed>>, <<>> before
  extracted,         \* its signalsByDimension argument
  raw,               \* the generator's answer to its prompt
  insightOutput,     \* <<what the function returned>>, <<>> before or when it threw
  reportPc,          \* the await the generate-report request is suspended at
  reports,           \* the generate-report requests so far, the last one current
  pendingKeys,       \* the bucket keys its loop has still to visit
  monthlyInsightRows,   \* employee_monthly_insights rows inserted, by id
  quarterlyInsightRows  \* employee_quarterly_insights rows inserted, by id

tables == <<runs, debateResponses, arbiterDecisions, employeePrompts, managerFeedbacks>>
locals == <<req, core, runId, stageUsage, debateStage, arbiterStage, guidanceStage, failing>>
vars == <<runs, debateResponses, arbiterDecisions, employeePrompts,
          managerFeedbacks, genLog, pc, body, req, core, runId, stageUsage,
          debateStage, arbiterStage, guidanceStage, failing, result, nStarted,
          nFaults, now, queueByKey, lastCallAtByKey, calls, lastStartAtByKey,
          insightPc, periodType, githubWeekly, slackWeekly, dataSufficiency,
          extracted, raw, insightOutput, reportPc, reports, pendingKeys,
          monthlyInsightRows, quarterlyInsightRows>>
limiter == <<now, queueByKey, lastCallAtByKey, calls, lastStartAtByKey>>
report == <<reportPc, reports, pendingKeys, monthlyInsightRows, quarterlyInsightRows>>
insights == <<insightPc, periodType, githubWeekly, slackWeekly, dataSufficiency,
              extracted, raw, insightOutput, report>>
orchestrator == <<runs, debateResponses, arbiterDecisions, employeePrompts,
                  managerFeedbacks, genLog, pc, body, req, core, runId, stageUsage,
                  debateStage, arbiterStage, guidanceStage, failing, result,
                  nStarted, nFaults>>

Init ==
  /\ runs = <<>>
  /\ debateResponses = EmptyBag
  /\ arbiterDecisions = EmptyBag
  /\ employeePrompts = EmptyBag
  /\ managerFeedbacks = EmptyBag
  /\ genLog = <<>>
  /\ pc = [c \in Clients |-> "idle"]
  /\ body = [c \in Clients |-> NoReq]
  /\ req = [c \in Clients |-> NoReq]
  /\ core = [c \in Clients |-> NoCore]
  /\ runId = [c \in Clients |-> NoRun]
  /\ stageUsage = [c \in Clients |-> EmptyUsage]
  /\ debateStage = [c \in Clients |-> <<>>]
  /\ arbiterStage = [c \in Clients |-> <<>>]
  /\ guidanceStage = [c \in Clients |-> <<>>]
  /\ failing = [c \in Clients |-> NoFailure]
  /\ result = [c \in Clients |-> NoResult]
  /\ nStarted = 0
  /\ nFaults = 0
  /\ now = Epoch
  /\ queueByKey = [key \in Keys |-> 0]
  /\ lastCallAtByKey = [key \in Keys |-> 0]
  /\ calls = <<>>
  /\ lastStartAtByKey = [key \in Keys |-> 0]
  /\ insightPc = "idle"
  /\ periodType = "month"
  /\ githubWeekly = <<>>
  /\ slackWeekly = <<>>
  /\ dataSufficiency = <<>>
  /\ extracted = NoSignals
  /\ raw = NoRaw
  /\ insightOutput = <<>>
  /\ reportPc = "idle"
  /\ reports = <<>>
  /\ pendingKeys = <<>>
  /\ monthlyInsightRows = <<>>
  /\ quarterlyInsightRows = <<>>

\* a storage write either takes effect (TRUE) or throws without effect
WriteOutcomes == IF nFaults < MaxWriteFaults THEN {TRUE, FALSE} ELSE {TRUE}

Fault(written) == nFaults' = IF written THEN nFaults ELSE nFaults + 1

\* the request of client c returns res (or rejects, res = Uncaught); the
\* locals of the call are gone
Return(c, res) ==
  /\ pc' = [pc EXCEPT ![c] = "done"]
  /\ result' = [result EXCEPT ![c] = res]
  /\ req' = [req EXCEPT ![c] = NoReq]
  /\ runId' = [runId EXCEPT ![c] = NoRun]
  /\ core' = [core EXCEPT ![c] = NoCore]
  /\ stageUsage' = [stageUsage EXCEPT ![c] = EmptyUsage]
  /\ debateStage' = [debateStage EXCEPT ![c] = <<>>]
  /\ arbiterStage' = [arbiterStage EXCEPT ![c] = <<>>]
  /\ guidanceStage' = [guidanceStage EXCEPT ![c] = <<>>]
  /\ failing' = [failing EXCEPT ![c] = NoFailure]

\* the failing step tried again while the run has logged fewer than two calls
Catch_try_again(c, failedStage, errorCode, message) ==
  IF Len(genLog[runId[c]]) < 2
    THEN UNCHANGED <<pc, failing>>
    ELSE /\ pc' = [pc EXCEPT ![c] = "mark_failed"]
         /\ failing' = [failing EXCEPT ![c] =
              [failedStage |-> failedStage, errorCode |-> errorCode,
               message |-> message]]

\* a stage threw: the catch block is entered, markRunFailed is awaited next
Catch(c, failedStage, errorCode, message) ==
  /\ pc' = [pc EXCEPT ![c] = "mark_failed"]
  /\ failing' = [failing EXCEPT ![c] =
       [failedStage |-> failedStage, errorCode |-> errorCode, message |-> message]]

\* the request goes on to its next await
Goto(c, label) ==
  /\ pc' = [pc EXCEPT ![c] = label]
  /\ UNCHANGED failing

LogCall(c, stageName, stage) ==
  genLog' = [genLog EXCEPT ![runId[c]] =
               Append(@, [stage |-> stageName, ok |-> stage.ok, code |-> stage.code,
                          usage |-> stage.usage])]

\* ------------------------------------------------------------- actions
\* POST arrives; the synchronous input validation runs up to the first await
Receive(c, bodies) ==
  /\ pc[c] \in {"idle", "done"}
  \* requests carry no identity: a new one takes the lowest free slot
  /\ \A d \in Clients : d < c => pc[d] \notin {"idle", "done"}
  /\ nStarted < MaxRequests
  /\ nStarted' = nStarted + 1
  /\ \E in \in bodies :
       LET employeeEmail == Trim(in.employeeEmail)
           monthValidation == normalizeAndValidateMonthKeys(in.quarter, in.monthKeys)
       IN  /\ body' = [body EXCEPT ![c] = in]
           /\ IF employeeEmail = ""
                THEN Return(c, Failure(400, NoRun, "input_validation",
                                       "invalid_employee_email"))
              ELSE IF ~QUARTER_PATTERN(in.quarter)
                THEN Return(c, Failure(400, NoRun, "input_validation",
                                       "invalid_quarter"))
              ELSE IF ~monthValidation.ok
                THEN Return(c, Failure(400, NoRun, "input_validation",
                                       "invalid_month_keys"))
              ELSE /\ Goto(c, "check")
                   /\ req' = [req EXCEPT ![c] =
                        [employeeEmail |-> employeeEmail, quarter |-> in.quarter,
                         monthKeys |-> monthValidation.months]]
                   /\ result' = [result EXCEPT ![c] = NoResult]
                   /\ UNCHANGED <<core, runId, stageUsage, debateStage,
                                  arbiterStage, guidanceStage>>
  /\ UNCHANGED <<tables, genLog, nFaults, limiter, insights>>

\* a request of the concurrent clients
Start(c) == Receive(c, ReqInputs)

\* select ... where employee_email, quarter, status = 'running' limit 1
CheckExistingRun(c) ==
  /\ pc[c] = "check"
  /\ LET existing == ExistingRun(runs, req[c].employeeEmail, req[c].quarter)
     IN  IF existing # {}
           THEN \E id \in existing :
                  Return(c, Failure(409, id, "evidence_load",
                                    "run_already_in_progress"))
           ELSE /\ Goto(c, "load")
                /\ UNCHANGED <<result, req, core, runId, stageUsage, debateStage,
                               arbiterStage, guidanceStage>>
  /\ UNCHANGED <<tables, genLog, nStarted, body, limiter, insights, nFaults>>

\* the result of the evidence reads ignored: the run is inserted anyway
LoadEvidenceRows_unchecked(c) ==
  /\ pc[c] = "load"
  /\ LET loaded == LoadEvidence(req[c].employeeEmail, req[c].quarter, req[c].monthKeys)
     IN  /\ Goto(c, "insert")
         /\ core' = [core EXCEPT ![c] = loaded.core]
         /\ UNCHANGED <<result, req, runId, stageUsage, debateStage,
                        arbiterStage, guidanceStage>>
  /\ UNCHANGED <<tables, genLog, nStarted, body, limiter, insights, nFaults>>

\* the evidence reads and buildEvidenceCatalog
LoadEvidenceRows(c) ==
  /\ pc[c] = "load"
  /\ LET loaded == LoadEvidence(req[c].employeeEmail, req[c].quarter, req[c].monthKeys)
     IN  IF ~loaded.ok
           THEN Return(c, loaded.failure)
           ELSE /\ Goto(c, "insert")
                /\ core' = [core EXCEPT ![c] = loaded.core]
                /\ UNCHANGED <<result, req, runId, stageUsage, debateStage,
                               arbiterStage, guidanceStage>>
  /\ UNCHANGED <<tables, genLog, nStarted, body, limiter, insights, nFaults>>

\* insert into analysis_run ... returning id
InsertRun(c) ==
  /\ pc[c] = "insert"
  /\ \E written \in WriteOutcomes :
       /\ Fault(written)
       /\ IF written /\ analysis_run_active_employee_quarter_idx(
                          runs, req[c].employeeEmail, req[c].quarter)
            THEN /\ runs' = Append(runs, NewRun(req[c].employeeEmail, req[c].quarter,
                                                stageUsage[c]))
                 /\ genLog' = Append(genLog, <<>>)
                 /\ runId' = [runId EXCEPT ![c] = Len(runs) + 1]
                 /\ Goto(c, "debate")
                 /\ UNCHANGED <<result, req, core, stageUsage, debateStage,
                                arbiterStage, guidanceStage>>
            ELSE /\ Return(c, Failure(409, NoRun, "evidence_load",
                                      "run_insert_conflict"))
                 /\ UNCHANGED <<runs, genLog>>
  /\ UNCHANGED <<debateResponses, arbiterDecisions, employeePrompts,
                 managerFeedbacks, nStarted, body, limiter, insights>>

\* await generateCombinedDebate(coreInput); stageUsage.debate = toUsage(...)
DebateGenerate(c) ==
  /\ pc[c] = "debate"
  /\ \E response \in DebateResponses :
       LET stage == generateCombinedDebate(core[c], response)
       IN  /\ LogCall(c, "debate", stage)
           /\ IF stage.ok
                THEN /\ debateStage' = [debateStage EXCEPT ![c] = stage.output]
                     /\ stageUsage' = [stageUsage EXCEPT ![c].debate = stage.usage]
                     /\ Goto(c, "debate_usage")
                ELSE /\ Catch(c, "debate", "debate_generation_failed", stage.code)
                     /\ UNCHANGED <<debateStage, stageUsage>>
  /\ UNCHANGED <<tables, req, core, runId, arbiterStage, guidanceStage, result,
                 nStarted, body, limiter, insights, nFaults>>

\* await updateRunUsage(runId, stageUsage), inside the try of the stage call
UsageWrite(c, at, next, failedStage, errorCode) ==
  /\ pc[c] = at
  /\ \E written \in WriteOutcomes :
       /\ Fault(written)
       /\ IF written
            THEN /\ runs' = updateRunUsage(runs, runId[c], stageUsage[c])
                 /\ Goto(c, next)
            ELSE /\ Catch(c, failedStage, errorCode, "storage_error")
                 /\ UNCHANGED runs
  /\ UNCHANGED <<debateResponses, arbiterDecisions, employeePrompts, managerFeedbacks,
                 genLog, req, core, runId, stageUsage, debateStage, arbiterStage,
                 guidanceStage, result, nStarted, body, limiter, insights>>

DebateUsage(c) ==
  UsageWrite(c, "debate_usage", "debate_persist", "debate", "debate_generation_failed")

\* the two rows written by two statements: the second may throw alone
DebatePersist_two_statements(c) ==
  /\ pc[c] = "debate_persist"
  /\ LET advocate == [runId |-> runId[c], agentRole |-> "advocate",
                      payload |-> debateStage[c][1].advocateAssessment]
         examiner == [runId |-> runId[c], agentRole |-> "examiner",
                      payload |-> debateStage[c][1].examinerAssessment]
     IN  \E written \in WriteOutcomes :
           /\ Fault(written)
           /\ IF written
                THEN /\ debateResponses' = debateResponses (+) SeqToBag(<<advocate, examiner>>)
                     /\ Goto(c, "arbiter")
                ELSE /\ debateResponses' = debateResponses (+) SeqToBag(<<advocate>>)
                     /\ Catch(c, "persistence", "debate_persistence_failed",
                              "storage_error")
  /\ UNCHANGED <<runs, arbiterDecisions, employeePrompts, managerFeedbacks,
                 genLog, req, core, runId, stageUsage, debateStage, arbiterStage,
                 guidanceStage, result, nStarted, body, limiter, insights>>

\* the insert's error swallowed: the arbiter stage runs anyway
DebatePersist_unchecked(c) ==
  /\ pc[c] = "debate_persist"
  /\ LET rows == << [runId |-> runId[c], agentRole |-> "advocate",
                     payload |-> debateStage[c][1].advocateAssessment],
                    [runId |-> runId[c], agentRole |-> "examiner",
                     payload |-> debateStage[c][1].examinerAssessment] >>
     IN  \E written \in WriteOutcomes :
           /\ Fault(written)
           /\ debateResponses' = IF written THEN debateResponses (+) SeqToBag(rows)
                                 ELSE debateResponses
           /\ Goto(c, "arbiter")
  /\ UNCHANGED <<runs, arbiterDecisions, employeePrompts, managerFeedbacks,
                 genLog, req, core, runId, stageUsage, debateStage, arbiterStage,
                 guidanceStage, result, nStarted, body, limiter, insights>>

\* one insert statement with the advocate row and the examiner row
DebatePersist(c) ==
  /\ pc[c] = "debate_persist"
  /\ LET rows == << [runId |-> runId[c], agentRole |-> "advocate",
                     payload |-> debateStage[c][1].advocateAssessment],
                    [runId |-> runId[c], agentRole |-> "examiner",
                     payload |-> debateStage[c][1].examinerAssessment] >>
     IN  \E written \in WriteOutcomes :
           /\ Fault(written)
           /\ IF written /\ analysis_debate_response_run_agent_idx(debateResponses, rows)
                THEN /\ debateResponses' = debateResponses (+) SeqToBag(rows)
                     /\ Goto(c, "arbiter")
                ELSE /\ Catch(c, "persistence", "debate_persistence_failed",
                              "storage_error")
                     /\ UNCHANGED debateResponses
  /\ UNCHANGED <<runs, arbiterDecisions, employeePrompts, managerFeedbacks,
                 genLog, req, core, runId, stageUsage, debateStage, arbiterStage,
                 guidanceStage, result, nStarted, body, limiter, insights>>

\* await generateArbiterDecision({core, debate}); stageUsage.arbiter = ...
ArbiterGenerate(c) ==
  /\ pc[c] = "arbiter"
  /\ \E response \in ArbiterResponses :
       LET stage == generateArbiterDecision(core[c], response)
       IN  /\ LogCall(c, "arbiter", stage)
           /\ IF stage.ok
                THEN /\ arbiterStage' = [arbiterStage EXCEPT ![c] = stage.output]
                     /\ stageUsage' = [stageUsage EXCEPT ![c].arbiter = stage.usage]
                     /\ Goto(c, "arbiter_usage")
                ELSE /\ Catch(c, "arbiter", "arbiter_generation_failed", stage.code)
                     /\ UNCHANGED <<arbiterStage, stageUsage>>
  /\ UNCHANGED <<tables, req, core, runId, debateStage, guidanceStage, result,
                 nStarted, body, limiter, insights, nFaults>>

ArbiterUsage(c) ==
  UsageWrite(c, "arbiter_usage", "arbiter_persist", "arbiter", "arbiter_generation_failed")

\* insert into analysis_arbiter_decision
ArbiterPersist(c) ==
  /\ pc[c] = "arbiter_persist"
  /\ \E written \in WriteOutcomes :
       /\ Fault(written)
       /\ IF written /\ UniqueRunIdx(arbiterDecisions, runId[c])
            THEN /\ arbiterDecisions' = arbiterDecisions (+)
                      SetToBag({[runId |-> runId[c], payload |-> arbiterStage[c][1]]})
                 /\ Goto(c, "guidance")
            ELSE /\ Catch(c, "persistence", "arbiter_persistence_failed",
                          "storage_error")
                 /\ UNCHANGED arbiterDecisions
  /\ UNCHANGED <<runs, debateResponses, employeePrompts, managerFeedbacks,
                 genLog, req, core, runId, stageUsage, debateStage, arbiterStage,
                 guidanceStage, result, nStarted, body, limiter, insights>>

\* await generateCombinedGuidance({core, debate, arbiter}); stageUsage.guidance = ...
GuidanceGenerate(c) ==
  /\ pc[c] = "guidance"
  /\ \E response \in GuidanceResponses :
       LET stage == generateCombinedGuidance(core[c], response)
       IN  /\ LogCall(c, "guidance", stage)
           /\ IF stage.ok
                THEN /\ guidanceStage' = [guidanceStage EXCEPT ![c] = stage.output]
                     /\ stageUsage' = [stageUsage EXCEPT ![c].guidance = stage.usage]
                     /\ Goto(c, "guidance_usage")
                ELSE /\ Catch(c, "guidance", "guidance_generation_failed", stage.code)
                     /\ UNCHANGED <<guidanceStage, stageUsage>>
  /\ UNCHANGED <<tables, req, core, runId, debateStage, arbiterStage, result,
                 nStarted, body, limiter, insights, nFaults>>

GuidanceUsage(c) ==
  UsageWrite(c, "guidance_usage", "prompts_persist", "guidance",
             "guidance_generation_failed")

\* insert into employee_prompt, one row per ping, one statement
PromptsPersist(c) ==
  /\ pc[c] = "prompts_persist"
  /\ LET pings == guidanceStage[c][1].employeePings
         rows == [i \in DOMAIN pings |->
                    [runId |-> runId[c], theme |-> pings[i].theme,
                     message |-> pings[i].message]]
     IN  \E written \in WriteOutcomes :
           /\ Fault(written)
           /\ IF written
                THEN /\ employeePrompts' = employeePrompts (+) SeqToBag(rows)
                     /\ Goto(c, "feedback_persist")
                ELSE /\ Catch(c, "persistence", "guidance_persistence_failed",
                              "storage_error")
                     /\ UNCHANGED employeePrompts
  /\ UNCHANGED <<runs, debateResponses, arbiterDecisions, managerFeedbacks,
                 genLog, req, core, runId, stageUsage, debateStage, arbiterStage,
                 guidanceStage, result, nStarted, body, limiter, insights>>

\* the insert's error swallowed: the run is completed anyway
FeedbackPersist_unchecked(c) ==
  /\ pc[c] = "feedback_persist"
  /\ \E written \in WriteOutcomes :
       /\ Fault(written)
       /\ managerFeedbacks' =
            IF written
              THEN managerFeedbacks (+)
                     SetToBag({[runId |-> runId[c],
                                payload |-> guidanceStage[c][1].managerCoaching]})
              ELSE managerFeedbacks
       /\ Goto(c, "complete")
  /\ UNCHANGED <<runs, debateResponses, arbiterDecisions, employeePrompts,
                 genLog, req, core, runId, stageUsage, debateStage, arbiterStage,
                 guidanceStage, result, nStarted, body, limiter, insights>>

\* insert into manager_feedback
FeedbackPersist(c) ==
  /\ pc[c] = "feedback_persist"
  /\ \E written \in WriteOutcomes :
       /\ Fault(written)
       /\ IF written /\ UniqueRunIdx(managerFeedbacks, runId[c])
            THEN /\ managerFeedbacks' = managerFeedbacks (+)
                      SetToBag({[runId |-> runId[c],
                                 payload |-> guidanceStage[c][1].managerCoaching]})
                 /\ Goto(c, "complete")
            ELSE /\ Catch(c, "persistence", "guidance_persistence_failed",
                          "storage_error")
                 /\ UNCHANGED managerFeedbacks
  /\ UNCHANGED <<runs, debateResponses, arbiterDecisions, employeePrompts,
                 genLog, req, core, runId, stageUsage, debateStage, arbiterStage,
                 guidanceStage, result, nStarted, body, limiter, insights>>

\* update analysis_run set status = 'completed' ...; then the success body
CompleteRun(c) ==
  /\ pc[c] = "complete"
  /\ \E written \in WriteOutcomes :
       /\ Fault(written)
       /\ IF written
            THEN /\ runs' = completeRun(runs, runId[c], stageUsage[c])
                 /\ Return(c, Success(runId[c]))
            ELSE /\ Catch(c, "persistence", "guidance_persistence_failed",
                          "storage_error")
                 /\ UNCHANGED <<runs, result, req, core, runId, stageUsage,
                                debateStage, arbiterStage, guidanceStage>>
  /\ UNCHANGED <<debateResponses, arbiterDecisions, employeePrompts, managerFeedbacks,
                 genLog, nStarted, body, limiter, insights>>

\* markRunFailed also deleting the stage rows the run has stored
MarkRunFailed_discarding(c) ==
  /\ pc[c] = "mark_failed"
  /\ \E written \in WriteOutcomes :
       /\ Fault(written)
       /\ IF written
            THEN /\ runs' = markRunFailed(runs, runId[c], failing[c].failedStage,
                                          failing[c].message, stageUsage[c])
                 /\ debateResponses' =
                      LET kept == {r \in BagToSet(debateResponses) : r.runId # runId[c]}
                      IN  [r \in kept |-> debateResponses[r]]
                 /\ Return(c, Failure(500, runId[c], failing[c].failedStage,
                                      failing[c].errorCode))
            ELSE /\ Return(c, Uncaught)
                 /\ UNCHANGED <<runs, debateResponses>>
  /\ UNCHANGED <<arbiterDecisions, employeePrompts, managerFeedbacks,
                 genLog, nStarted, body, limiter, insights>>

\* await markRunFailed(...) in a catch block, then the failure body; a throw
\* of this update is caught nowhere and rejects the orchestrator's promise
MarkRunFailed(c) ==
  /\ pc[c] = "mark_failed"
  /\ \E written \in WriteOutcomes :
       /\ Fault(written)
       /\ IF written
            THEN /\ runs' = markRunFailed(runs, runId[c], failing[c].failedStage,
                                          failing[c].message, stageUsage[c])
                 /\ Return(c, Failure(500, runId[c], failing[c].failedStage,
                                      failing[c].errorCode))
            ELSE /\ Return(c, Uncaught)
                 /\ UNCHANGED runs
  /\ UNCHANGED <<debateResponses, arbiterDecisions, employeePrompts, managerFeedbacks,
                 genLog, nStarted, body, limiter, insights>>

Next ==
  \E c \in Clients :
    \/ Start(c)
    \/ CheckExistingRun(c)
    \/ LoadEvidenceRows(c)
    \/ InsertRun(c)
    \/ DebateGenerate(c)
    \/ DebateUsage(c)
    \/ DebatePersist(c)
    \/ ArbiterGenerate(c)
    \/ ArbiterUsage(c)
    \/ ArbiterPersist(c)
    \/ GuidanceGenerate(c)
    \/ GuidanceUsage(c)
    \/ PromptsPersist(c)
    \/ FeedbackPersist(c)
    \/ CompleteRun(c)
    \/ MarkRunFailed(c)

Spec == Init /\ [][Next]_vars

\* one caller posting one request after the other, with any body
NextRequests ==
  \/ Receive(1, AllBodies)
  \/ CheckExistingRun(1)
  \/ LoadEvidenceRows(1)
  \/ InsertRun(1)
  \/ DebateGenerate(1)
  \/ DebateUsage(1)
  \/ DebatePersist(1)
  \/ ArbiterGenerate(1)
  \/ ArbiterUsage(1)
  \/ ArbiterPersist(1)
  \/ GuidanceGenerate(1)
  \/ GuidanceUsage(1)
  \/ PromptsPersist(1)
  \/ FeedbackPersist(1)
  \/ CompleteRun(1)
  \/ MarkRunFailed(1)

SpecRequests == Init /\ [][NextRequests]_vars

\* ----------------------------------------------- runWithLlmRateLimit
\* the promise `current` of call i is resolved
Released(i) == calls[i].pc \in {"returned", "threw"}

\* the promise a call awaits is resolved: Promise.resolve() when the key
\* had no queue yet (0), else the promise current of an earlier call
Resolved(previous) == IF previous = 0 THEN TRUE ELSE Released(previous)

\* input.fn() of call i has been called
Started(i) == calls[i].pc \in {"running", "returned", "threw"}

\* the try block is entered: input.fn() is called
StartFn(i) ==
  /\ calls' = [calls EXCEPT ![i].pc = "running", ![i].wakeAt = 0]
  /\ lastStartAtByKey' = [lastStartAtByKey EXCEPT ![calls[i].key] = now]

\* Math.max(0, minIntervalMs - elapsed)
WaitMs(i) ==
  LET elapsed == now - lastCallAtByKey[calls[i].key]
  IN  IF calls[i].minIntervalMs - elapsed > 0
        THEN calls[i].minIntervalMs - elapsed ELSE 0

\* a call that does not join the queue of its key
Invoke_unchained(key, minIntervalMs) ==
  /\ Len(calls) < MaxCalls
  /\ queueByKey' = [queueByKey EXCEPT ![key] = Len(calls) + 1]
  /\ calls' = Append(calls,
       [key |-> key, minIntervalMs |-> minIntervalMs, previous |-> 0,
        pc |-> "await_previous", wakeAt |-> 0])
  /\ UNCHANGED <<now, lastCallAtByKey, lastStartAtByKey, orchestrator, insights>>

\* the synchronous part of a call: previous is read, current is made the
\* tail of the key's queue, and the call suspends at `await previous`
Invoke(key, minIntervalMs) ==
  /\ Len(calls) < MaxCalls
  /\ queueByKey' = [queueByKey EXCEPT ![key] = Len(calls) + 1]
  /\ calls' = Append(calls,
       [key |-> key, minIntervalMs |-> minIntervalMs, previous |-> queueByKey[key],
        pc |-> "await_previous", wakeAt |-> 0])
  /\ UNCHANGED <<now, lastCallAtByKey, lastStartAtByKey, orchestrator, insights>>

\* the continuation after `await previous` that never sleeps
Resume_without_wait(i) ==
  /\ calls[i].pc = "await_previous"
  /\ Resolved(calls[i].previous)
  /\ StartFn(i)
  /\ UNCHANGED <<now, queueByKey, lastCallAtByKey, orchestrator, insights>>

\* the continuation that does not wait for previous to resolve
Resume_unqueued(i) ==
  /\ calls[i].pc = "await_previous"
  /\ IF WaitMs(i) > 0
       THEN /\ calls' = [calls EXCEPT ![i].pc = "sleeping",
                                      ![i].wakeAt = now + WaitMs(i)]
            /\ UNCHANGED lastStartAtByKey
       ELSE StartFn(i)
  /\ UNCHANGED <<now, queueByKey, lastCallAtByKey, orchestrator, insights>>

\* previous has resolved: elapsed and waitMs are computed; the call sleeps
\* when waitMs > 0 and enters the try block otherwise
Resume(i) ==
  /\ calls[i].pc = "await_previous"
  /\ Resolved(calls[i].previous)
  /\ IF WaitMs(i) > 0
       THEN /\ calls' = [calls EXCEPT ![i].pc = "sleeping",
                                      ![i].wakeAt = now + WaitMs(i)]
            /\ UNCHANGED lastStartAtByKey
       ELSE StartFn(i)
  /\ UNCHANGED <<now, queueByKey, lastCallAtByKey, orchestrator, insights>>

\* the timer of sleep(waitMs) fires, no earlier than asked
Wake(i) ==
  /\ calls[i].pc = "sleeping"
  /\ now >= calls[i].wakeAt
  /\ StartFn(i)
  /\ UNCHANGED <<now, queueByKey, lastCallAtByKey, orchestrator, insights>>

\* the time recorded and current resolved at the end of the try block only:
\* an operation that throws leaves both as they are
Settle_without_finally(i, outcome) ==
  /\ calls[i].pc = "running"
  /\ calls' = [calls EXCEPT ![i].pc = IF outcome = "threw" THEN "rejected"
                                      ELSE outcome]
  /\ lastCallAtByKey' = [lastCallAtByKey EXCEPT ![calls[i].key] =
                           IF outcome = "threw" THEN @ ELSE now]
  /\ UNCHANGED <<now, queueByKey, lastStartAtByKey, orchestrator, insights>>

\* input.fn() settles; the finally block records the time and resolves
\* current
Settle(i, outcome) ==
  /\ calls[i].pc = "running"
  /\ calls' = [calls EXCEPT ![i].pc = outcome]
  /\ lastCallAtByKey' = [lastCallAtByKey EXCEPT ![calls[i].key] = now]
  /\ UNCHANGED <<now, queueByKey, lastStartAtByKey, orchestrator, insights>>

\* a millisecond passes (up to the last instant of the model, or to the
\* instant a pending timer is set for)
Tick ==
  /\ \/ now < Epoch + MaxTime
     \/ \E i \in DOMAIN calls : calls[i].pc = "sleeping" /\ now < calls[i].wakeAt
  /\ now' = now + 1
  /\ UNCHANGED <<queueByKey, lastCallAtByKey, calls, lastStartAtByKey,
                 orchestrator, insights>>

NextLimiter ==
  \/ \E key \in Keys, minIntervalMs \in Intervals : Invoke(key, minIntervalMs)
  \/ \E i \in DOMAIN calls : Resume(i)
  \/ \E i \in DOMAIN calls : Wake(i)
  \/ \E i \in DOMAIN calls, outcome \in {"returned", "threw"} : Settle(i, outcome)
  \/ Tick

SpecLimiter == Init /\ [][NextLimiter]_vars

\* The event loop runs the continuation of every resolved promise and
\* fires every timer that is due, time passes, and every wrapped operation
\* that was started settles.
SpecLimiterFair ==
  /\ SpecLimiter
  /\ \A i \in 1..MaxCalls :
       /\ WF_vars(i \in DOMAIN calls /\ Resume(i))
       /\ WF_vars(i \in DOMAIN calls /\ Wake(i))
       /\ WF_vars(i \in DOMAIN calls /\
                    \E outcome \in {"returned", "threw"} : Settle(i, outcome))
  /\ WF_vars(Tick)

\* ------------------------------------------------------ the stage functions
\* One call of a stage function on its own, with any core input and any
\* answer of the generator within the bounds.  core[1] is the core passed
\* to the call, and the stage variable of the called function holds what
\* it returned (<<>> when it threw).

\* evidence catalogs with the ids E1..En that buildEvidenceCatalog gives
Catalogs == {[i \in 1..n |-> i] : n \in 0..MaxCatalog}

Cores ==
  [evidenceCatalog : Catalogs,
   dataSufficiency : {"sufficient", "partial", "insufficient"},
   eligibility : [bonus : BOOLEAN, promotion : BOOLEAN]]

\* the refs an answer may name: E1..E(MaxCatalog+1), the last one in no
\* catalog, and a string that is no E<n>
AnswerRefs == 1..(MaxCatalog + 1) \cup {-1}

RefLists(n) == UNION {[1..k -> AnswerRefs] : k \in 0..n}

StageDebateJson(claim, advocateRefs, examinerRefs) ==
  [shape |-> "ok",
   advocateAssessment |->
     [arguments |-> << [claim |-> Text(claim, <<>>),
                        evidenceRefs |-> advocateRefs] >>,
      recommendation |-> Recommendation, confidence |-> "high"],
   examinerAssessment |->
     [arguments |-> << [claim |-> Text("reviews are slow", <<>>),
                        evidenceRefs |-> examinerRefs] >>,
      risks |-> <<Text("sustained load", <<>>)>>,
      recommendation |-> Recommendation, confidence |-> "medium"]]

StageDebateResponses ==
  { [kind |-> "json", json |-> StageDebateJson(claim, advocateRefs, examinerRefs),
     usage |-> 5] :
      claim \in {"steady delivery", "ahead of peers"},
      advocateRefs \in RefLists(MaxRefs), examinerRefs \in RefLists(1) }

StageArbiterJson(bonus, promotion, rationale, notesForHR) ==
  [shape |-> "ok",
   finalRecommendation |-> [bonus |-> bonus, promotion |-> promotion],
   rationale |-> <<rationale>>,
   unresolvedQuestions |-> <<Text("is the load temporary", <<>>)>>,
   confidence |-> "high",
   notesForHR |-> notesForHR]

StageLines(n) ==
  {Text(line, refs) : line \in {"solid quarter", "ahead of peers"},
                      refs \in RefLists(n)}

StageArbiterResponses ==
  { [kind |-> "json",
     json |-> StageArbiterJson(bonus, promotion, rationale, notesForHR),
     usage |-> 6] :
      bonus \in {"approve", "deny"}, promotion \in {"approve", "deny"},
      rationale \in StageLines(MaxRefs),
      notesForHR \in {<<>>} \cup {<<line>> : line \in StageLines(1)} }

StageGuidanceJson(message, pingRefs, coachingRefs) ==
  [shape |-> "ok",
   employeePings |->
     << [theme |-> "growth", message |-> Text(message, <<>>),
         evidenceRefs |-> pingRefs, confidence |-> "high"] >>,
   managerCoaching |->
     [focusAreas |-> <<Text("pairing", <<>>)>>,
      evidenceRefs |-> coachingRefs, confidence |-> "high"]]

\* answers with one ping, and answers with a second ping about compensation
StageGuidanceResponses ==
  { [kind |-> "json", json |-> StageGuidanceJson(message, pingRefs, coachingRefs),
     usage |-> 7] :
      message \in {"next step", "ahead of peers", "about your bonus",
                   "bonus compared to peers"},
      pingRefs \in RefLists(MaxRefs), coachingRefs \in RefLists(1) }
  \cup
  { [kind |-> "json",
     json |-> [StageGuidanceJson("next step", pingRefs, <<1>>) EXCEPT
                 !.employeePings = Append(@,
                    [theme |-> "focus", message |-> Text(message, <<>>),
                     evidenceRefs |-> <<1>>, confidence |-> "medium"])],
     usage |-> 7] :
      message \in {"about your bonus", "bonus compared to peers"},
      pingRefs \in RefLists(1) }

\* the ManagerAnalysisValidationError a stage function threw, by its code
Thrown(stageName, stage) ==
  IF stage.ok THEN NoFailure
  ELSE [failedStage |-> stageName, errorCode |-> stage.code, message |-> "none"]

\* generateCombinedDebate(input) called and settled
CallDebate ==
  /\ pc[1] = "idle"
  /\ pc' = [pc EXCEPT ![1] = "done"]
  /\ \E coreInput \in Cores, response \in StageDebateResponses :
       LET stage == generateCombinedDebate(coreInput, response)
       IN  /\ core' = [core EXCEPT ![1] = coreInput]
           /\ raw' = response
           /\ debateStage' = [debateStage EXCEPT ![1] = stage.output]
           /\ failing' = [failing EXCEPT ![1] = Thrown("debate", stage)]
  /\ UNCHANGED <<tables, genLog, body, req, runId, stageUsage,
                 result, nStarted, nFaults, limiter, insightPc, periodType,
                 githubWeekly, slackWeekly, dataSufficiency, extracted,
                 insightOutput, report, arbiterStage, guidanceStage>>

\* generateArbiterDecision({core, debate}) called and settled
CallArbiter ==
  /\ pc[1] = "idle"
  /\ pc' = [pc EXCEPT ![1] = "done"]
  /\ \E coreInput \in Cores, response \in StageArbiterResponses :
       LET stage == generateArbiterDecision(coreInput, response)
       IN  /\ core' = [core EXCEPT ![1] = coreInput]
           /\ raw' = response
           /\ arbiterStage' = [arbiterStage EXCEPT ![1] = stage.output]
           /\ failing' = [failing EXCEPT ![1] = Thrown("arbiter", stage)]
  /\ UNCHANGED <<tables, genLog, body, req, runId, stageUsage,
                 result, nStarted, nFaults, limiter, insightPc, periodType,
                 githubWeekly, slackWeekly, dataSufficiency, extracted,
                 insightOutput, report, debateStage, guidanceStage>>

\* generateCombinedGuidance({core, debate, arbiter}) called and settled
CallGuidance ==
  /\ pc[1] = "idle"
  /\ pc' = [pc EXCEPT ![1] = "done"]
  /\ \E coreInput \in Cores, response \in StageGuidanceResponses :
       LET stage == generateCombinedGuidance(coreInput, response)
       IN  /\ core' = [core EXCEPT ![1] = coreInput]
           /\ raw' = response
           /\ guidanceStage' = [guidanceStage EXCEPT ![1] = stage.output]
           /\ failing' = [failing EXCEPT ![1] = Thrown("guidance", stage)]
  /\ UNCHANGED <<tables, genLog, body, req, runId, stageUsage,
                 result, nStarted, nFaults, limiter, insightPc, periodType,
                 githubWeekly, slackWeekly, dataSufficiency, extracted,
                 insightOutput, report, debateStage, arbiterStage>>

\* ------------------------------------------------- assessDataSufficiency
\* One period assessed, and assessed again with one more weekly row.  The
\* github rows of a period are the weeks a..b of the calendar, with date
\* strings; the slack rows the weeks c..d, with Dates.
Weeks == 1..MaxWeeks

GithubRow(k) == [weekStart |-> WeekStart("string", Monday(k))]
SlackRow(k) == [weekStart |-> WeekStart("Date", Monday(k))]

\* <<a, b>> for the weeks a..b, <<1, 0>> for no week
WeekRanges == {<<1, 0>>} \cup {range \in Weeks \X Weeks : range[1] <= range[2]}

\* the rows of the weeks a..b, oldest first (none when b < a)
RowsOfWeeks(source, range) ==
  [i \in 1..(IF range[2] < range[1] THEN 0 ELSE range[2] - range[1] + 1) |->
     IF source = "github" THEN GithubRow(range[1] + i - 1)
                          ELSE SlackRow(range[1] + i - 1)]

\* assessDataSufficiency(periodType, githubWeekly, slackWeekly)
Assess ==
  /\ insightPc = "idle"
  /\ insightPc' = "assessed"
  /\ \E type \in {"month", "quarter"}, github \in WeekRanges, slack \in WeekRanges :
       /\ periodType' = type
       /\ githubWeekly' = RowsOfWeeks("github", github)
       /\ slackWeekly' = RowsOfWeeks("slack", slack)
       /\ dataSufficiency' =
            <<assessDataSufficiency(type, githubWeekly', slackWeekly')>>
  /\ UNCHANGED <<orchestrator, limiter, extracted, raw, insightOutput, report>>

\* the same period with one more row of a source
AssessMore ==
  /\ insightPc = "assessed"
  /\ insightPc' = "reassessed"
  /\ \E k \in Weeks :
       \/ /\ githubWeekly' = Append(githubWeekly, GithubRow(k))
          /\ UNCHANGED slackWeekly
       \/ /\ slackWeekly' = Append(slackWeekly, SlackRow(k))
          /\ UNCHANGED githubWeekly
  /\ dataSufficiency' =
       <<assessDataSufficiency(periodType, githubWeekly', slackWeekly')>>
  /\ UNCHANGED <<orchestrator, limiter, periodType, extracted, raw, insightOutput,
                 report>>

NextSufficiency == Assess \/ AssessMore

SpecSufficiency == Init /\ [][NextSufficiency]_vars

\* ---------------------------------------------------- the insight functions
\* One call of a function of the insight generator on its own.  The period
\* passed is one of Coverages, the answer of the generator is in raw, and
\* insightOutput holds what the function returned (<<>> when it threw).

\* weekly rows of a period: a full month, a month with four and with three
\* weeks, a month without slack rows, and the same for a quarter
FullMonth == [type |-> "month", github |-> <<9, 13>>, slack |-> <<9, 13>>]

Coverages ==
  {FullMonth,
   [type |-> "month", github |-> <<9, 12>>, slack |-> <<9, 12>>],
   [type |-> "month", github |-> <<9, 11>>, slack |-> <<10, 11>>],
   [type |-> "month", github |-> <<9, 13>>, slack |-> <<1, 0>>],
   [type |-> "quarter", github |-> <<1, 13>>, slack |-> <<1, 13>>],
   [type |-> "quarter", github |-> <<1, 11>>, slack |-> <<2, 11>>],
   [type |-> "quarter", github |-> <<1, 9>>, slack |-> <<1, 9>>]}

\* evidence entries of an answer: two that pass sanitizeEvidence and six
\* that do not
EvidenceEntry(source, weekStart, summary) ==
  [isObject |-> TRUE, source |-> source, weekStart |-> weekStart,
   fields |-> Arr(<<"commits">>), summary |-> summary]

GithubEntry ==
  EvidenceEntry("github_weekly_activity", WeekStart("string", Monday(9)),
                "12 commits")
SlackEntry ==
  [EvidenceEntry("slack_weekly_activity", WeekStart("timestamp", Monday(10)),
                 "40 messages") EXCEPT !.fields = NotArr]
BadSource == EvidenceEntry("jira", WeekStart("string", Monday(9)), "3 tickets")
EmptyWeek ==
  EvidenceEntry("github_weekly_activity", WeekStart("empty", Monday(9)),
                "12 commits")
NumberWeek ==
  EvidenceEntry("slack_weekly_activity", WeekStart("number", Monday(9)),
                "40 messages")
EmptySummary ==
  EvidenceEntry("github_weekly_activity", WeekStart("string", Monday(9)), "")
NumberSummary ==
  EvidenceEntry("slack_weekly_activity", WeekStart("string", Monday(9)),
                "<number>")

\* the evidence of a raw signal: missing, with one valid entry, with
\* invalid entries only, and with a valid entry among invalid ones
RawEvidence ==
  {NotArr,
   Arr(<<GithubEntry>>),
   Arr(<<NotObj, BadSource, EmptyWeek, NumberWeek, EmptySummary, NumberSummary>>),
   Arr(<<BadSource, SlackEntry, EmptySummary>>)}

\* signalId: none (0), "S1" (1) or "sig-a" (101)
RawSignals ==
  {NotObj} \cup
  [isObject : {TRUE}, signalId : {0, 1, 101},
   statement : {" ships weekly ", "<undefined>"}, evidence : RawEvidence]

\* the record of raw signals per dimension that lists the given
\* <<dimension, rawSignal>> pairs; "Engagement" is no array
SignalRecord(pairs) ==
  LET of(dimension) ==
        LET mine == SelectSeq(pairs, LAMBDA pair : pair[1] = dimension)
        IN  Arr([i \in DOMAIN mine |-> mine[i][2]])
  IN  [isObject |-> TRUE, Execution |-> of("Execution"), Engagement |-> NotArr,
       Collaboration |-> of("Collaboration"), Growth |-> of("Growth")]

\* records of up to MaxSignals raw signals in "Execution" and "Growth"
SignalRecords ==
  {NotObj} \cup
  {SignalRecord(pairs) :
     pairs \in {list \in UNION {[1..k -> {"Execution", "Growth"} \X RawSignals] :
                                  k \in 0..MaxSignals} :
                  \A i \in DOMAIN list :
                    i = 1 \/ list[i - 1][1] = "Execution" \/ list[i][1] = "Growth"}}

SupportedSignal(signalId) ==
  [isObject |-> TRUE, signalId |-> signalId, statement |-> "ships weekly",
   evidence |-> Arr(<<GithubEntry>>)]

\* a few of them: none, one signal without evidence, one and two with
PlainSignalRecords ==
  {NotObj,
   SignalRecord(<< <<"Growth", [SupportedSignal(1) EXCEPT !.evidence = Arr(<<>>)]>> >>),
   SignalRecord(<< <<"Execution", SupportedSignal(0)>> >>),
   SignalRecord(<< <<"Execution", SupportedSignal(1)>>,
                   <<"Growth", SupportedSignal(1)>> >>)}

\* the signalsByDimension that extractSignals returns for them
ExtractedSignals ==
  {Grouped(ExtractLoop(PendingSignals(record), <<>>)).signalsByDimension :
     record \in PlainSignalRecords}

RawConfidences == {"low", "medium", "high", "<undefined>"}
RawTexts == {"steady delivery", "coverage is limited", " ", "<undefined>"}

\* the raw insight of every dimension but "Growth", which has none
RawDimensionInsights ==
  {NotObj} \cup
  {[isObject |-> TRUE, Execution |-> rawInsight, Engagement |-> rawInsight,
    Collaboration |-> rawInsight, Growth |-> NotObj] :
     rawInsight \in [isObject : {TRUE}, insight : RawTexts,
                     supportingSignalIds : {NotArr, Arr(<<1, 7>>)},
                     confidence : RawConfidences]}

\* an answer with the fields of the monthly and of the quarterly synthesis
SynthesisJson(text, items, confidence) ==
  [isObject |-> TRUE,
   overallSummary |-> text, identifiedRisks |-> items,
   identifiedOpportunities |-> NotArr,
   trajectorySummary |-> text, keyStrengths |-> items, keyConcerns |-> NotArr,
   burnoutAssessment |-> "steady delivery", growthAssessment |-> "<undefined>",
   retentionAssessment |-> "coverage is limited",
   recommendedActions |-> items,
   evidenceSnapshots |->
     IF items.isArray
       THEN Arr(<<NotObj,
                  [isObject |-> TRUE, signalId |-> 1, dimension |-> "Execution",
                   evidence |-> Arr(<<GithubEntry, BadSource>>)],
                  [isObject |-> TRUE, signalId |-> 1, dimension |-> "Velocity",
                   evidence |-> NotArr]>>)
       ELSE NotArr,
   confidence |-> confidence]

SynthesisJsons ==
  {SynthesisJson(text, items, confidence) :
     text \in RawTexts, items \in {NotArr, Arr(<<"pairing", "">>)},
     confidence \in RawConfidences}

\* answers that are no usable JSON
BadAnswers == {[kind |-> "throw"], [kind |-> "garbage"], [kind |-> "null"]}

JsonAnswer(json) == [kind |-> "json", json |-> json]

\* a combined answer to a single-pass prompt
SinglePassJson(signals, rawDimensionInsights, synthesis) ==
  [field \in DOMAIN synthesis \cup {"signalsByDimension", "dimensionInsights"} |->
     CASE field = "signalsByDimension" -> signals
       [] field = "dimensionInsights" -> rawDimensionInsights
       [] OTHER -> synthesis[field]]

\* <<period, answer>> of a single-pass call: any period with an answer of
\* a few signals and any other fields, and a full month with an answer of
\* any signals
SinglePassCalls ==
  (Coverages \X
     (BadAnswers \cup
      {JsonAnswer(SinglePassJson(signals, rawDimensionInsights, synthesis)) :
         signals \in PlainSignalRecords,
         rawDimensionInsights \in RawDimensionInsights,
         synthesis \in SynthesisJsons})) \cup
  ({FullMonth} \X
     {JsonAnswer(SinglePassJson(signals, NotObj,
                                SynthesisJson("steady delivery", NotArr, "high"))) :
        signals \in SignalRecords})

\* <<period, answer>> of a call of extractSignals
ExtractCalls ==
  (Coverages \X
     (BadAnswers \cup
      {JsonAnswer([dimensions |-> record]) : record \in PlainSignalRecords})) \cup
  ({FullMonth} \X
     {JsonAnswer([dimensions |-> record]) : record \in SignalRecords})

\* the period of a call, as the caller read it from the weekly tables
SetPeriod(coverage) ==
  /\ periodType' = coverage.type
  /\ githubWeekly' = RowsOfWeeks("github", coverage.github)
  /\ slackWeekly' = RowsOfWeeks("slack", coverage.slack)

\* generateMonthlyInsightsSinglePass / generateQuarterlyInsightsSinglePass
\* called and settled
CallSinglePass ==
  /\ pc[1] = "idle"
  /\ pc' = [pc EXCEPT ![1] = "done"]
  /\ insightPc' = "singlePass"
  /\ \E call \in SinglePassCalls :
       /\ SetPeriod(call[1])
       /\ raw' = call[2]
       /\ dataSufficiency' =
            <<assessDataSufficiency(periodType', githubWeekly', slackWeekly')>>
       /\ insightOutput' =
            generateInsightsSinglePass(periodType', githubWeekly', slackWeekly',
                                       raw').output
  /\ UNCHANGED <<tables, genLog, body, locals, result, nStarted, nFaults,
                 limiter, extracted, report>>

\* extractSignals(input) called and settled
CallExtractSignals ==
  /\ pc[1] = "idle"
  /\ pc' = [pc EXCEPT ![1] = "done"]
  /\ insightPc' = "extractSignals"
  /\ \E call \in ExtractCalls :
       /\ SetPeriod(call[1])
       /\ raw' = call[2]
       /\ dataSufficiency' =
            <<assessDataSufficiency(periodType', githubWeekly', slackWeekly')>>
       /\ insightOutput' =
            extractSignals(periodType', githubWeekly', slackWeekly', raw').output
  /\ UNCHANGED <<tables, genLog, body, locals, result, nStarted, nFaults,
                 limiter, extracted, report>>

\* reasonByDimension(input) called and settled, with the signals and the
\* coverage that extractSignals returned
CallReasonByDimension ==
  /\ pc[1] = "idle"
  /\ pc' = [pc EXCEPT ![1] = "done"]
  /\ insightPc' = "reasonByDimension"
  /\ \E coverage \in Coverages, signals \in ExtractedSignals,
        answer \in BadAnswers \cup
                   {JsonAnswer([dimensions |-> record]) :
                      record \in RawDimensionInsights} :
       /\ SetPeriod(coverage)
       /\ extracted' = signals
       /\ raw' = answer
       /\ dataSufficiency' =
            <<assessDataSufficiency(periodType', githubWeekly', slackWeekly')>>
       /\ insightOutput' =
            reasonByDimension(signals, dataSufficiency'[1], answer).output
  /\ UNCHANGED <<tables, genLog, body, locals, result, nStarted, nFaults,
                 limiter, report>>

\* synthesizeInsights(input) called and settled
CallSynthesizeInsights ==
  /\ pc[1] = "idle"
  /\ pc' = [pc EXCEPT ![1] = "done"]
  /\ insightPc' = "synthesizeInsights"
  /\ \E coverage \in Coverages, signals \in ExtractedSignals,
        answer \in BadAnswers \cup {JsonAnswer(json) : json \in SynthesisJsons} :
       /\ SetPeriod(coverage)
       /\ extracted' = signals
       /\ raw' = answer
       /\ dataSufficiency' =
            <<assessDataSufficiency(periodType', githubWeekly', slackWeekly')>>
       /\ insightOutput' =
            synthesizeInsights(periodType', signals, dataSufficiency'[1],
                               answer).output
  /\ UNCHANGED <<tables, genLog, body, locals, result, nStarted, nFaults,
                 limiter, report>>

\* ------------------------------------------------- normalizeConfidence
\* One value normalized, and the result normalized again with the same
\* arguments.  raw holds the value and hasSignals, insightOutput the
\* results in the order they were computed.
ConfidenceInput(value, hasSignals) ==
  [kind |-> "confidence", value |-> value, hasSignals |-> hasSignals]

\* normalizeConfidence(value, dataSufficiency, hasSignals) of the insight
\* generator, for the coverage of a period
NormalizeInsight ==
  /\ insightPc = "idle"
  /\ insightPc' = "normalizeConfidence"
  /\ \E coverage \in Coverages, value \in RawConfidences \cup {"<number>"},
        hasSignals \in BOOLEAN :
       /\ SetPeriod(coverage)
       /\ raw' = ConfidenceInput(value, hasSignals)
       /\ dataSufficiency' =
            <<assessDataSufficiency(periodType', githubWeekly', slackWeekly')>>
       /\ insightOutput' = <<insightConfidence(value, dataSufficiency'[1], hasSignals)>>
  /\ UNCHANGED <<orchestrator, limiter, extracted, report>>

\* normalizeConfidence(value, dataSufficiency) of the stage functions, for
\* a value that passed confidenceSchema
NormalizeStage ==
  /\ insightPc = "idle"
  /\ insightPc' = "stageConfidence"
  /\ \E value \in {"low", "medium", "high"},
        level \in {"sufficient", "partial", "insufficient"} :
       /\ raw' = ConfidenceInput(value, TRUE)
       /\ core' = [core EXCEPT ![1].dataSufficiency = level]
       /\ insightOutput' = <<normalizeConfidence(value, level)>>
  /\ UNCHANGED <<tables, genLog, pc, body, req, runId, stageUsage, debateStage,
                 arbiterStage, guidanceStage, failing, result, nStarted, nFaults,
                 limiter, periodType, githubWeekly, slackWeekly, dataSufficiency,
                 extracted, report>>

\* the last result normalized again
NormalizeAgain ==
  /\ insightPc \in {"normalizeConfidence", "stageConfidence"}
  /\ Len(insightOutput) < MaxApplications
  /\ insightOutput' =
       Append(insightOutput,
         IF insightPc = "normalizeConfidence"
           THEN insightConfidence(insightOutput[Len(insightOutput)],
                                  dataSufficiency[1], raw.hasSignals)
           ELSE normalizeConfidence(insightOutput[Len(insightOutput)],
                                    core[1].dataSufficiency))
  /\ UNCHANGED <<orchestrator, limiter, insightPc, periodType, githubWeekly,
                 slackWeekly, dataSufficiency, extracted, raw, report>>

NextConfidence == NormalizeInsight \/ NormalizeStage \/ NormalizeAgain

SpecConfidence == Init /\ [][NextConfidence]_vars

NextStages ==
  \/ CallDebate \/ CallArbiter \/ CallGuidance
  \/ CallSinglePass \/ CallExtractSignals
  \/ CallReasonByDimension \/ CallSynthesizeInsights

SpecStages == Init /\ [][NextStages]_vars

\* ------------------------------------------------------ generate-report
\* POST of the generate-report route, one request after the other.  A date
\* of the body is no string, a string that is no YYYY-MM-DD, or the string
\* of [year, m, d], which need not be a day of the calendar.

\* the weekly rows stored, by employee, in ascending weekStart order
githubWeeklyActivity ==
  [email \in {"ann"} |-> <<GithubRow(4), GithubRow(12), GithubRow(13), GithubRow(14)>>]

slackWeeklyActivity ==
  [email \in {"ann"} |-> <<SlackRow(13), SlackRow(14), SlackRow(15)>>]

LOOKBACK_WEEKS == 12

\* new Date() of the requests: April 25, 2025
Today == [year |-> 2025, m |-> 4, d |-> 25]

NoDate == [isString |-> FALSE, pattern |-> FALSE]
TextDate == [isString |-> TRUE, pattern |-> FALSE]
DateString(date) == [isString |-> TRUE, pattern |-> TRUE, date |-> date]

\* the number of the day in its year; the order of date strings
DayOfYear(date) == (IF date.m = 1 THEN 0 ELSE MonthEnds[date.m - 1]) + date.d

isValidDate(value) ==
  /\ value.pattern
  /\ value.date.m \in 1..12
  /\ value.date.d >= 1
  /\ DayOfYear(value.date) <= MonthEnds[value.date.m]

\* body.employeeEmail.trim().toLowerCase()
LowerTrim(email) == IF email = " Ann " THEN "ann" ELSE Trim(email)

\* the rows of an employee from the start day on, up to the end day if any
RowsInWindow(tbl, email, startDay, endDays) ==
  IF email \notin DOMAIN tbl THEN <<>>
  ELSE SelectSeq(tbl[email],
         LAMBDA week :
           /\ DayOfYear(week.weekStart.date) >= startDay
           /\ \A endDay \in endDays : DayOfYear(week.weekStart.date) <= endDay)

PeriodKey(type, week) ==
  IF type = "month" THEN monthKey(toISODate(week.weekStart))
  ELSE quarterKey(toISODate(week.weekStart))

\* "YYYY-MM" and "YYYY-Qn" keys in the order of Array.prototype.sort
KeyRank(key) ==
  100 * key.year + (IF "m" \in DOMAIN key THEN key.m ELSE key.q)

RECURSIVE SortKeys(_)
SortKeys(keys) ==
  IF keys = {} THEN <<>>
  ELSE LET first == CHOOSE key \in keys :
                      \A other \in keys : KeyRank(key) <= KeyRank(other)
       IN  <<first>> \o SortKeys(keys \ {first})

\* groupByPeriod: the sorted keys, and the bucket of a key
BucketKeys(github, slack, type) ==
  SortKeys({PeriodKey(type, github[i]) : i \in DOMAIN github}
           \cup {PeriodKey(type, slack[i]) : i \in DOMAIN slack})

Bucket(github, slack, type, key) ==
  [githubWeekly |-> SelectSeq(github, LAMBDA week : PeriodKey(type, week) = key),
   slackWeekly |-> SelectSeq(slack, LAMBDA week : PeriodKey(type, week) = key)]

\* the rows the request in progress has read
ReadWeekly(tbl) ==
  LET request == reports[Len(reports)]
  IN  RowsInWindow(tbl, request.employeeEmail,
        IF request.startDate.isString THEN DayOfYear(request.startDate.date)
        ELSE DayOfYear(Today) - LOOKBACK_WEEKS * 7,
        IF request.endDate.isString THEN {DayOfYear(request.endDate.date)} ELSE {})

\* the bodies posted: five windows for "ann", a window for parts of bodies
\* that do not pass, and an employee that is not stored
ReportBodies ==
  {[employeeEmail |-> " Ann ", startDate |-> window[1], endDate |-> window[2]] :
     window \in {<<NoDate, NoDate>>,
                 <<DateString(Monday(12)), DateString(Monday(13))>>,
                 <<DateString(Monday(13)), DateString(Monday(14))>>,
                 <<DateString(Monday(1)), DateString(Monday(2))>>,
                 <<DateString(Monday(13)), NoDate>>,
                 <<TextDate, DateString(Monday(13))>>,
                 <<DateString(Monday(12)), DateString([year |-> 2025, m |-> 2, d |-> 30])>>,
                 <<DateString(Monday(13)), DateString(Monday(12))>>}}
  \cup
  {[employeeEmail |-> email, startDate |-> DateString(Monday(12)),
    endDate |-> DateString(Monday(13))] : email \in {"", "<undefined>", "dan"}}

\* the answers of the generator to the single-pass prompt of a bucket
ReportAnswers ==
  {[kind |-> "throw"], [kind |-> "garbage"],
   JsonAnswer(SinglePassJson(
     SignalRecord(<< <<"Execution", SupportedSignal(0)>> >>), NotObj,
     SynthesisJson("steady delivery", Arr(<<"pairing", "">>), "high")))}

ReportRequest(email, in, status) ==
  [employeeEmail |-> email, startDate |-> in.startDate, endDate |-> in.endDate,
   status |-> status, monthlyKeys |-> <<>>, quarterlyKeys |-> <<>>, calls |-> <<>>,
   monthlyGenerated |-> 0, quarterlyGenerated |-> 0,
   monthlyBefore |-> Len(monthlyInsightRows),
   quarterlyBefore |-> Len(quarterlyInsightRows)]

\* the request in progress ends: with a response, or rejected
ReportEnd(status) ==
  /\ reportPc' = "done"
  /\ reports' = [reports EXCEPT ![Len(reports)].status = status]
  /\ pendingKeys' = <<>>

\* POST up to the employee lookup: the body is validated
ReportReceive ==
  /\ reportPc \in {"idle", "done"}
  /\ Len(reports) < MaxReports
  /\ \E in \in ReportBodies :
       LET hasStartDate == in.startDate.isString
           hasEndDate == in.endDate.isString
           rejected ==
             \/ ~IsString(in.employeeEmail) \/ in.employeeEmail = ""
             \/ hasStartDate # hasEndDate
             \/ /\ hasStartDate /\ hasEndDate
                /\ \/ ~isValidDate(in.startDate) \/ ~isValidDate(in.endDate)
                   \/ DayOfYear(in.startDate.date) > DayOfYear(in.endDate.date)
       IN  IF rejected
             THEN /\ reports' = Append(reports,
                       ReportRequest(in.employeeEmail, in, "400"))
                  /\ reportPc' = "done"
             ELSE /\ reports' = Append(reports,
                       ReportRequest(LowerTrim(in.employeeEmail), in, "running"))
                  /\ reportPc' = "lookup"
  /\ UNCHANGED <<orchestrator, limiter, insightPc, periodType, githubWeekly,
                 slackWeekly, dataSufficiency, extracted, raw, insightOutput,
                 pendingKeys, monthlyInsightRows, quarterlyInsightRows>>

\* the employee is looked up, the weekly rows are read and grouped; with
\* no bucket at all the request is answered here
ReportRead ==
  /\ reportPc = "lookup"
  /\ LET request == reports[Len(reports)]
         github == ReadWeekly(githubWeeklyActivity)
         slack == ReadWeekly(slackWeeklyActivity)
         monthlyKeys == BucketKeys(github, slack, "month")
         quarterlyKeys == BucketKeys(github, slack, "quarter")
     IN  IF request.employeeEmail \notin employees
           THEN ReportEnd("404")
         ELSE IF monthlyKeys = <<>> /\ quarterlyKeys = <<>>
           THEN ReportEnd("success")
         ELSE /\ reports' = [reports EXCEPT
                   ![Len(reports)].monthlyKeys = monthlyKeys,
                   ![Len(reports)].quarterlyKeys = quarterlyKeys]
              /\ pendingKeys' = monthlyKeys
              /\ reportPc' = "month_generate"
  /\ UNCHANGED <<orchestrator, limiter, insightPc, periodType, githubWeekly,
                 slackWeekly, dataSufficiency, extracted, raw, insightOutput,
                 monthlyInsightRows, quarterlyInsightRows>>

\* await generateMonthlyInsightsSinglePass / generateQuarterlyInsightsSinglePass
\* for the next bucket
ReportGenerate ==
  /\ reportPc \in {"month_generate", "quarter_generate"}
  /\ LET type == IF reportPc = "month_generate" THEN "month" ELSE "quarter"
         bucket == Bucket(ReadWeekly(githubWeeklyActivity),
                          ReadWeekly(slackWeeklyActivity), type, Head(pendingKeys))
     IN  \E answer \in ReportAnswers :
           LET bundle == generateInsightsSinglePass(type, bucket.githubWeekly,
                                                    bucket.slackWeekly, answer)
           IN  /\ periodType' = type
               /\ githubWeekly' = bucket.githubWeekly
               /\ slackWeekly' = bucket.slackWeekly
               /\ raw' = answer
               /\ insightOutput' = bundle.output
               /\ IF bundle.ok
                    THEN /\ reports' = [reports EXCEPT ![Len(reports)].calls =
                                          Append(@, Head(pendingKeys))]
                         /\ reportPc' = IF type = "month" THEN "month_insert"
                                        ELSE "quarter_insert"
                         /\ UNCHANGED pendingKeys
                    ELSE /\ reports' = [reports EXCEPT
                              ![Len(reports)].calls = Append(@, Head(pendingKeys)),
                              ![Len(reports)].status = "rejected"]
                         /\ reportPc' = "done"
                         /\ pendingKeys' = <<>>
  /\ UNCHANGED <<orchestrator, limiter, insightPc, dataSufficiency, extracted,
                 monthlyInsightRows, quarterlyInsightRows>>

\* the row written over the stored row of the employee and period, if any
InsertRow_upsert(rows, row, period) ==
  IF \E i \in DOMAIN rows :
       rows[i].employeeEmail = row.employeeEmail /\ rows[i][period] = row[period]
    THEN [i \in DOMAIN rows |->
            IF rows[i].employeeEmail = row.employeeEmail
                 /\ rows[i][period] = row[period]
              THEN row ELSE rows[i]]
    ELSE Append(rows, row)

\* insert into the table of the period ("month" or "quarter"): a new row
\* under the next id
InsertRow(rows, row, period) == Append(rows, row)

\* await db.insert(...).values({...}) of the bundle; then the next bucket,
\* the quarter loop after the month loop, or the response
ReportInsert ==
  /\ reportPc \in {"month_insert", "quarter_insert"}
  /\ \E written \in WriteOutcomes :
       /\ Fault(written)
       /\ IF ~written
            THEN /\ ReportEnd("rejected")
                 /\ UNCHANGED <<monthlyInsightRows, quarterlyInsightRows>>
          ELSE
            LET request == reports[Len(reports)]
                bundle == insightOutput[1]
                monthly == reportPc = "month_insert"
                rest == Tail(pendingKeys)
                next == IF rest # <<>> THEN rest
                        ELSE IF monthly THEN request.quarterlyKeys ELSE <<>>
            IN  /\ IF monthly
                     THEN /\ monthlyInsightRows' = InsertRow(monthlyInsightRows,
                               [employeeEmail |-> request.employeeEmail,
                                month |-> Head(pendingKeys),
                                executionInsight |->
                                  bundle.dimensionInsights["Execution"].insight,
                                overallSummary |-> bundle.synthesis.overallSummary,
                                identifiedRisks |-> bundle.synthesis.identifiedRisks,
                                supportingSignals |-> bundle.allSignals,
                                dataSufficiency |-> bundle.dataSufficiency.level,
                                confidenceLevel |-> bundle.synthesis.confidence],
                               "month")
                          /\ UNCHANGED quarterlyInsightRows
                     ELSE /\ quarterlyInsightRows' = InsertRow(quarterlyInsightRows,
                               [employeeEmail |-> request.employeeEmail,
                                quarter |-> Head(pendingKeys),
                                trajectorySummary |->
                                  bundle.synthesis.trajectorySummary,
                                keyStrengths |-> bundle.synthesis.keyStrengths,
                                evidenceSnapshots |->
                                  bundle.synthesis.evidenceSnapshots,
                                dataSufficiency |-> bundle.dataSufficiency.level,
                                confidenceLevel |-> bundle.synthesis.confidence],
                               "quarter")
                          /\ UNCHANGED monthlyInsightRows
                /\ pendingKeys' = next
                /\ reports' = [reports EXCEPT
                     ![Len(reports)].monthlyGenerated =
                        IF monthly THEN @ + 1 ELSE @,
                     ![Len(reports)].quarterlyGenerated =
                        IF monthly THEN @ ELSE @ + 1,
                     ![Len(reports)].status =
                        IF next = <<>> THEN "success" ELSE @]
                /\ reportPc' =
                     IF next = <<>> THEN "done"
                     ELSE IF monthly /\ rest # <<>> THEN "month_generate"
                     ELSE "quarter_generate"
  /\ UNCHANGED <<tables, genLog, pc, body, locals, result, nStarted, limiter,
                 insightPc, periodType, githubWeekly, slackWeekly, dataSufficiency,
                 extracted, raw, insightOutput>>

NextReport == ReportReceive \/ ReportRead \/ ReportGenerate \/ ReportInsert

SpecReport == Init /\ [][NextReport]_vars

TypeOK ==
  /\ \A id \in DOMAIN runs : runs[id].status \in {"running", "completed", "failed"}
  /\ nStarted \in 0..MaxRequests

\* ------------------------------------------------------- observations
\* number of rows of a stage-output table that belong to run id
RowsOf(tbl, id) ==
  LET mine == {r \in BagToSet(tbl) : r.runId = id}
  IN  BagCardinality([r \in mine |-> tbl[r]])

DebateRowsOf(id, agentRole) ==
  LET mine == {r \in BagToSet(debateResponses) :
                 r.runId = id /\ r.agentRole = agentRole}
  IN  BagCardinality([r \in mine |-> debateResponses[r]])

\* the rows of a stage-output table that belong to run id, as a bag
RowBagOf(tbl, id) ==
  LET mine == {r \in BagToSet(tbl) : r.runId = id}
  IN  [r \in mine |-> tbl[r]]

\* the generator was called for this stage of run id
Called(id, stageName) == \E i \in DOMAIN genLog[id] : genLog[id][i].stage = stageName

\* that call threw (generator error or output validation)
StageThrew(id, stageName) ==
  \E i \in DOMAIN genLog[id] : genLog[id][i].stage = stageName /\ ~genLog[id][i].ok

\* the request that inserted run id has not returned yet
InFlight(id) == \E c \in Clients : runId[c] = id /\ pc[c] \notin {"idle", "done"}

SamePair(a, b) ==
  runs[a].employeeEmail = runs[b].employeeEmail /\ runs[a].quarter = runs[b].quarter

\* the await that follows the generator call of a stage
UsageStep(stageName) ==
  IF stageName = "debate" THEN "debate_usage"
  ELSE IF stageName = "arbiter" THEN "arbiter_usage" ELSE "guidance_usage"

StageRank(stageName) ==
  IF stageName = "debate" THEN 1 ELSE IF stageName = "arbiter" THEN 2 ELSE 3

\* the texts stored for an employee, a quarter and a list of months
StoredTexts(employeeEmail, quarter, monthKeys) ==
  LET qRows == {r \in Range(employeeQuarterlyInsights) :
                  r.employeeEmail = employeeEmail /\ r.quarter = quarter}
      mRows == {r \in Range(employeeMonthlyInsights) :
                  r.employeeEmail = employeeEmail /\ r.month \in Range(monthKeys)}
  IN  UNION { {r.trajectorySummary, r.burnoutAssessment, r.growthAssessment,
               r.retentionAssessment}
              \cup Range(r.keyStrengths) \cup Range(r.keyConcerns)
              \cup Range(r.recommendedActions)
              \cup UNION {Range(snap.evidence) : snap \in Range(r.evidenceSnapshots)}
              : r \in qRows }
      \cup
      UNION { {r.overallSummary} \cup Range(r.identifiedRisks)
              \cup Range(r.identifiedOpportunities) : r \in mRows }

\* the employee, the context row, the quarterly row or a monthly row is
\* missing, or nothing stored has a text to cite
MissingEvidence(employeeEmail, quarter, monthKeys) ==
  \/ employeeEmail \notin employees
  \/ ~\E r \in employeeAnalysisContext : r.employeeEmail = employeeEmail
  \/ ~\E r \in Range(employeeQuarterlyInsights) :
         r.employeeEmail = employeeEmail /\ r.quarter = quarter
  \/ \E k \in DOMAIN monthKeys :
       ~\E r \in Range(employeeMonthlyInsights) :
          r.employeeEmail = employeeEmail /\ r.month = monthKeys[k]
  \/ \A t \in StoredTexts(employeeEmail, quarter, monthKeys) : t \in {"", " "}

\* the employee, the context row, a quarterly row and a row of every month
\* are stored
RowsStored(employeeEmail, quarter, monthKeys) ==
  /\ employeeEmail \in employees
  /\ \E r \in employeeAnalysisContext : r.employeeEmail = employeeEmail
  /\ \E r \in Range(employeeQuarterlyInsights) :
        r.employeeEmail = employeeEmail /\ r.quarter = quarter
  /\ \A k \in DOMAIN monthKeys :
        \E r \in Range(employeeMonthlyInsights) :
          r.employeeEmail = employeeEmail /\ r.month = monthKeys[k]

\* the row created last
LatestRow(rows) == CHOOSE r \in rows : \A other \in rows : other.createdAt <= r.createdAt

\* the texts of the latest quarterly row and of the latest row of each
\* month, in the order of the row's fields and of monthKeys
LatestTexts(employeeEmail, quarter, monthKeys) ==
  LET q == LatestRow({r \in Range(employeeQuarterlyInsights) :
                        r.employeeEmail = employeeEmail /\ r.quarter = quarter})
      m(k) == LatestRow({r \in Range(employeeMonthlyInsights) :
                           r.employeeEmail = employeeEmail /\ r.month = monthKeys[k]})
  IN  <<q.trajectorySummary>> \o q.keyStrengths \o q.keyConcerns
      \o <<q.burnoutAssessment, q.growthAssessment, q.retentionAssessment>>
      \o q.recommendedActions
      \o FlattenSeq([i \in DOMAIN q.evidenceSnapshots |-> q.evidenceSnapshots[i].evidence])
      \o FlattenSeq([k \in DOMAIN monthKeys |->
            <<m(k).overallSummary>> \o m(k).identifiedRisks
            \o m(k).identifiedOpportunities])

\* how many of them are not blank
CitableCount(employeeEmail, quarter, monthKeys) ==
  LET texts == LatestTexts(employeeEmail, quarter, monthKeys)
  IN  Cardinality({i \in DOMAIN texts : texts[i] \notin {"", " "}})

\* the three calendar months of a quarter
CalendarMonths(quarter) ==
  {[year |-> quarter.year, m |-> m] : m \in (3 * (quarter.q - 1) + 1)..(3 * quarter.q)}

\* an empty employeeEmail, a string that is no quarter, or monthKeys that
\* are not the three months of the quarter, each once
BadBody(b) ==
  \/ b.employeeEmail \in {"", " "}
  \/ b.quarter.q \notin 1..4
  \/ Len(b.monthKeys) # 3
  \/ Range(b.monthKeys) # CalendarMonths(b.quarter)

\* the body passes the input validation of the orchestrator
ValidBody(b) ==
  /\ Trim(b.employeeEmail) # ""
  /\ QUARTER_PATTERN(b.quarter)
  /\ normalizeAndValidateMonthKeys(b.quarter, b.monthKeys).ok

\* the evidence refs of a stage output: the evidenceRefs of the arguments,
\* the ids in the refs:[...] tokens of rationale and notesForHR, the
\* evidenceRefs of the pings and of the coaching
DebateRefs(output) ==
  UNION {Range(argument.evidenceRefs) :
           argument \in Range(output.advocateAssessment.arguments)
                         \cup Range(output.examinerAssessment.arguments)}

ArbiterRefs(output) ==
  UNION {Range(parseCitationRefs(line)) :
           line \in Range(output.rationale) \cup Range(output.notesForHR)}

GuidanceRefs(output) ==
  UNION {Range(ping.evidenceRefs) : ping \in Range(output.employeePings)}
    \cup Range(output.managerCoaching.evidenceRefs)

\* the counts and flags assessDataSufficiency is specified by
WeekStartDates ==
  {githubWeekly[i].weekStart.date : i \in DOMAIN githubWeekly}
    \cup {slackWeekly[i].weekStart.date : i \in DOMAIN slackWeekly}

WeekCount == Cardinality(WeekStartDates)

MonthCount == Cardinality({<<date.year, date.m>> : date \in WeekStartDates})

SourceMissing == githubWeekly = <<>> \/ slackWeekly = <<>>

LevelRank(level) ==
  CASE level = "insufficient" -> 0 [] level = "partial" -> 1 [] level = "sufficient" -> 2

ConfidenceRank(confidence) ==
  CASE confidence = "low" -> 0 [] confidence = "medium" -> 1 [] confidence = "high" -> 2

\* the confidence values in what the stage functions returned to client c
StageConfidences(c) ==
  (IF debateStage[c] = <<>> THEN {}
   ELSE {debateStage[c][1].advocateAssessment.confidence,
         debateStage[c][1].examinerAssessment.confidence}) \cup
  (IF arbiterStage[c] = <<>> THEN {} ELSE {arbiterStage[c][1].confidence}) \cup
  (IF guidanceStage[c] = <<>> THEN {}
   ELSE {guidanceStage[c][1].employeePings[i].confidence :
           i \in DOMAIN guidanceStage[c][1].employeePings}
        \cup {guidanceStage[c][1].managerCoaching.confidence})

\* the confidence values in what the insight function returned
InsightConfidences ==
  IF insightOutput = <<>> THEN {}
  ELSE CASE insightPc = "singlePass" ->
              {insightOutput[1].dimensionInsights[d].confidence :
                 d \in Range(DIMENSIONS)}
              \cup {insightOutput[1].synthesis.confidence}
         [] insightPc = "reasonByDimension" ->
              {insightOutput[1].dimensions[d].confidence : d \in Range(DIMENSIONS)}
         [] insightPc = "synthesizeInsights" -> {insightOutput[1].confidence}
         [] OTHER -> {}

\* the signals of the period the synthesis was made for
PeriodSignals ==
  CASE insightPc = "singlePass" /\ insightOutput # <<>> -> insightOutput[1].allSignals
    [] insightPc = "synthesizeInsights" ->
         FlattenSeq([d \in DOMAIN DIMENSIONS |-> extracted[DIMENSIONS[d]]])
    [] OTHER -> <<>>

\* the raw signals of the answer, as <<dimension, rawSignal>> pairs in the
\* order of the dimensions
AnsweredSignals ==
  CASE insightPc = "singlePass" /\ raw.kind = "json" ->
         PendingSignals(raw.json.signalsByDimension)
    [] insightPc = "extractSignals" /\ raw.kind = "json" ->
         PendingSignals(raw.json.dimensions)
    [] OTHER -> <<>>

\* a raw signal with an evidence entry that names a known source, a week
\* and a summary
HasValidEvidence(rawSignal) ==
  /\ rawSignal.isObject
  /\ rawSignal.evidence.isArray
  /\ \E i \in DOMAIN rawSignal.evidence.items :
       ValidEvidenceEntry(rawSignal.evidence.items[i])

\* the ids of the rows of a table that request n of reports inserted: the
\* ids after those that existed when it began, up to those that existed
\* when the next request began
InsertedBy(n, before, rows) ==
  (reports[n][before] + 1) ..
    (IF n = Len(reports) THEN Len(rows) ELSE reports[n + 1][before])

\* the stored rows of an employee and period
RowsFor(rows, email, period, key) ==
  {i \in DOMAIN rows : rows[i].employeeEmail = email /\ rows[i][period] = key}

\* request n was answered with status "success" for the buckets of its
\* window: its rows are one per month key and one per quarter key, in the
\* order of the keys, after one generator call per key
OneRowPerBucket(n) ==
  LET request == reports[n]
      monthly == InsertedBy(n, "monthlyBefore", monthlyInsightRows)
      quarterly == InsertedBy(n, "quarterlyBefore", quarterlyInsightRows)
  IN  /\ Cardinality(monthly) = Len(request.monthlyKeys)
      /\ Cardinality(quarterly) = Len(request.quarterlyKeys)
      /\ \A k \in DOMAIN request.monthlyKeys :
           LET row == monthlyInsightRows[request.monthlyBefore + k]
           IN  row.employeeEmail = request.employeeEmail
                 /\ row.month = request.monthlyKeys[k]
      /\ \A k \in DOMAIN request.quarterlyKeys :
           LET row == quarterlyInsightRows[request.quarterlyBefore + k]
           IN  row.employeeEmail = request.employeeEmail
                 /\ row.quarter = request.quarterlyKeys[k]
      /\ request.monthlyGenerated = Len(request.monthlyKeys)
      /\ request.quarterlyGenerated = Len(request.quarterlyKeys)
      /\ request.calls = request.monthlyKeys \o request.quarterlyKeys

C2_NoOrphanedRunningRun ==
  \A id \in DOMAIN runs : runs[id].status = "running" => InFlight(id)

\* C3: a run is "completed" only if both DebateResponse rows, the
\* ArbiterDecision row, the EmployeePrompt rows and the ManagerFeedback row
\* of that run are persisted.
C3_CompletedHasAllOutputs ==
  \A id \in DOMAIN runs :
    runs[id].status = "completed" =>
      /\ DebateRowsOf(id, "advocate") = 1
      /\ DebateRowsOf(id, "examiner") = 1
      /\ RowsOf(arbiterDecisions, id) = 1
      /\ RowsOf(employeePrompts, id) >= 1
      /\ RowsOf(managerFeedbacks, id) = 1

C3_Witness == \E id \in DOMAIN runs : runs[id].status = "completed"

C5_ConflictRejected ==
  [][\A c \in Clients :
       LET running == {id \in DOMAIN runs :
                         /\ runs[id].status = "running"
                         /\ runs[id].employeeEmail = req[c].employeeEmail
                         /\ runs[id].quarter = req[c].quarter}
       IN  (pc[c] = "check" /\ pc'[c] # "check" /\ running # {}) =>
             /\ pc'[c] = "done"
             /\ result'[c].httpStatus = 409
             /\ result'[c].errorCode = "run_already_in_progress"
             /\ result'[c].runId \in running
             /\ runs' = runs]_vars

C5_Witness ==
  \E c \in Clients :
    /\ result[c].errorCode = "run_already_in_progress"
    /\ result[c].httpStatus = 409
    /\ result[c].runId \in DOMAIN runs
    /\ runs[result[c].runId].status = "running"

\* C6: "completed" and "failed" are terminal: a status changes only from
\* "running", and a failed run's status, failedStage and stageUsage never
\* change again.
C6_TerminalStates ==
  [][\A id \in DOMAIN runs :
       /\ id \in DOMAIN runs'
       /\ runs'[id].status # runs[id].status => runs[id].status = "running"
       /\ runs[id].status = "failed" =>
            /\ runs'[id].failedStage = runs[id].failedStage
            /\ runs'[id].stageUsage = runs[id].stageUsage]_vars

\* a pair whose earlier run ended is run again, and the later run ended
\* as well
C6_Witness ==
  \E a, b \in DOMAIN runs :
    /\ a < b /\ SamePair(a, b)
    /\ runs[a].status \in {"failed", "completed"}
    /\ runs[b].status = "failed"

\* C7: failedStage debate/arbiter/guidance is recorded only when that
\* stage's generator call or output validation failed; a storage write
\* failure after the generator call succeeded is recorded as "persistence".
C7_FailureClassification ==
  \A id \in DOMAIN runs :
    (runs[id].status = "failed" /\ runs[id].failedStage \in {"debate", "arbiter", "guidance"})
      => StageThrew(id, runs[id].failedStage)

\* C8: if the debate stage fails, no DebateResponse row is persisted for the
\* run, neither the arbiter nor the guidance generator is called, and the
\* run is marked failed with failedStage "debate".
C8_DebateFailure ==
  \A id \in DOMAIN runs :
    StageThrew(id, "debate") =>
      /\ RowsOf(debateResponses, id) = 0
      /\ ~Called(id, "arbiter") /\ ~Called(id, "guidance")
      /\ ~InFlight(id) =>
           (runs[id].status = "failed" /\ runs[id].failedStage = "debate")

\* C9: if an employeePing message contains compensation language the
\* guidance stage raises prohibited_content, no EmployeePrompt or
\* ManagerFeedback row is persisted, and the run is marked failed with
\* failedStage "guidance".
C9_ProhibitedContent ==
  \A id \in DOMAIN runs :
    (\E i \in DOMAIN genLog[id] :
       genLog[id][i].stage = "guidance" /\ genLog[id][i].code = "prohibited_content")
    => /\ RowsOf(employeePrompts, id) = 0
       /\ RowsOf(managerFeedbacks, id) = 0
       /\ ~InFlight(id) =>
            (runs[id].status = "failed" /\ runs[id].failedStage = "guidance")

\* C10: each run has either no DebateResponse row or exactly one advocate
\* row and one examiner row.
C10_DebatePairAtomic ==
  /\ \A r \in BagToSet(debateResponses) : r.runId \in DOMAIN runs
  /\ \A id \in DOMAIN runs :
       \/ DebateRowsOf(id, "advocate") = 0 /\ DebateRowsOf(id, "examiner") = 0
       \/ DebateRowsOf(id, "advocate") = 1 /\ DebateRowsOf(id, "examiner") = 1

\* one run whose pair insert threw and one whose pair is stored
C10_Witness ==
  \E a, b \in DOMAIN runs :
    /\ runs[a].status = "failed" /\ runs[a].failedStage = "persistence"
    /\ ~Called(a, "arbiter") /\ RowsOf(debateResponses, a) = 0
    /\ RowsOf(debateResponses, b) = 2

\* C11: partial progress survives failure: no step deletes or alters a
\* stored DebateResponse or ArbiterDecision row, and the step that marks a
\* run "failed" leaves both tables as they are.
C11_PartialProgressKept ==
  [][/\ debateResponses \sqsubseteq debateResponses'
     /\ arbiterDecisions \sqsubseteq arbiterDecisions'
     /\ \A id \in DOMAIN runs :
          (runs[id].status = "running" /\ runs'[id].status = "failed") =>
            /\ debateResponses' = debateResponses
            /\ arbiterDecisions' = arbiterDecisions]_vars

\* a run failed at the guidance stage with its debate pair and its arbiter
\* decision still stored
C11_Witness ==
  \E id \in DOMAIN runs :
    /\ runs[id].status = "failed" /\ runs[id].failedStage = "guidance"
    /\ RowsOf(debateResponses, id) = 2
    /\ RowsOf(arbiterDecisions, id) = 1

\* C12: a valid request whose employee, analysis-context row, quarterly row
\* or one of its monthly rows is missing, or whose catalog would be empty,
\* never gets past the evidence reads: it ends with a failure at
\* "evidence_load" with runId null; no analysis_run row exists for such a
\* request and so no generator call is logged for one.
C12_EvidenceLoadFailure ==
  /\ \A c \in Clients :
       (/\ pc[c] # "idle"
        /\ ValidBody(body[c])
        /\ MissingEvidence(Trim(body[c].employeeEmail), body[c].quarter,
                           body[c].monthKeys)) =>
         /\ pc[c] \in {"check", "load", "done"}
         /\ runId[c] = NoRun
         /\ pc[c] = "done" =>
              /\ ~result[c].ok
              /\ result[c].failedStage = "evidence_load"
              /\ result[c].runId = NoRun
              /\ result[c].errorCode \in
                   {"employee_not_found", "missing_analysis_context",
                    "missing_quarterly_evidence", "missing_monthly_evidence",
                    "empty_evidence_catalog"}
  /\ \A id \in DOMAIN runs :
       ~MissingEvidence(runs[id].employeeEmail, runs[id].quarter,
                        expectedMonthsForQuarter(runs[id].quarter))
  /\ DOMAIN genLog = DOMAIN runs

\* after a run of another employee was stored, a request whose texts are
\* all blank has ended
C12_Witness ==
  \E c \in Clients :
    /\ pc[c] = "done"
    /\ body[c].employeeEmail = "gus"
    /\ result[c].errorCode = "empty_evidence_catalog"
    /\ runs # <<>>

\* C13: the step that receives a request ends it with HTTP 400 at
\* "input_validation", leaving every table and the generator log as they
\* are, when its employeeEmail is empty, its quarter is no quarter or its
\* monthKeys are not the quarter's three months, each once; every other
\* body, so every permutation of the quarter's months, goes on to the
\* running-run check.
C13_InputValidation ==
  [][nStarted' # nStarted =>
       \E c \in Clients :
         /\ pc[c] \in {"idle", "done"}
         /\ \A d \in Clients \ {c} : pc'[d] = pc[d] /\ body'[d] = body[d]
         /\ IF BadBody(body'[c])
              THEN /\ pc'[c] = "done"
                   /\ ~result'[c].ok
                   /\ result'[c].httpStatus = 400
                   /\ result'[c].failedStage = "input_validation"
                   /\ result'[c].runId = NoRun
                   /\ tables' = tables
                   /\ genLog' = genLog
              ELSE /\ pc'[c] = "check"
                   /\ req'[c].monthKeys = expectedMonthsForQuarter(body'[c].quarter)]_vars

\* a list that names a month twice was rejected, after an earlier request
\* with the months in another order had its run stored
C13_Witness ==
  \E c \in Clients :
    /\ pc[c] = "done"
    /\ body[c].monthKeys = <<M(1), M(3), M(1)>>
    /\ result[c].errorCode = "invalid_month_keys"
    /\ runs # <<>>

\* C14: every request that has ended returned a body: a success, or a
\* failure that names its failedStage and errorCode; the orchestrator's
\* promise never rejects.
C14_StructuredFailure ==
  \A c \in Clients :
    pc[c] = "done" =>
      \/ result[c].ok /\ result[c].httpStatus = 200
      \/ /\ ~result[c].ok
         /\ result[c].httpStatus \in {400, 404, 409, 422, 500}
         /\ result[c].failedStage \in {"input_validation", "evidence_load", "debate",
                                       "arbiter", "guidance", "persistence"}
         /\ result[c].errorCode \notin {"none", "pending", "uncaught_exception"}

C16_AppendOnlyHistory ==
  [][/\ \A c \in Clients :
          LET running == {id \in DOMAIN runs :
                            /\ runs[id].status = "running"
                            /\ runs[id].employeeEmail = req[c].employeeEmail
                            /\ runs[id].quarter = req[c].quarter}
          IN  /\ (pc[c] = "check" /\ pc'[c] # "check" /\ running = {}) =>
                   pc'[c] = "load"
              /\ (pc[c] = "insert" /\ pc'[c] # "insert") =>
                   IF running = {} /\ nFaults' = nFaults
                     THEN /\ DOMAIN runs' = DOMAIN runs \cup {Len(runs) + 1}
                          /\ runId'[c] = Len(runs) + 1
                          /\ runs'[runId'[c]].status = "running"
                          /\ runs'[runId'[c]].employeeEmail = req[c].employeeEmail
                          /\ runs'[runId'[c]].quarter = req[c].quarter
                          /\ \A id \in DOMAIN runs : runs'[id] = runs[id]
                     ELSE runs' = runs
     /\ \A id \in DOMAIN runs :
          runs[id].status \in {"completed", "failed"} =>
            /\ runs'[id] = runs[id]
            /\ RowBagOf(debateResponses', id) = RowBagOf(debateResponses, id)
            /\ RowBagOf(arbiterDecisions', id) = RowBagOf(arbiterDecisions, id)
            /\ RowBagOf(employeePrompts', id) = RowBagOf(employeePrompts, id)
            /\ RowBagOf(managerFeedbacks', id) = RowBagOf(managerFeedbacks, id)]_vars

\* a pair with a completed run was run again: the second run is stored and
\* completed too, next to the first
C16_Witness ==
  \E a, b \in DOMAIN runs :
    /\ a < b /\ SamePair(a, b)
    /\ runs[a].status = "completed"
    /\ runs[b].status = "completed"
    /\ RowsOf(managerFeedbacks, a) = 1 /\ RowsOf(managerFeedbacks, b) = 1

\* C17: whenever a wrapped operation starts under a key under which one
\* started before, at least the minIntervalMs of the starting call has
\* passed since that earlier start, whether the earlier operation returned
\* or threw and however many callers are queued.
C17_MinSpacing ==
  [][\A i \in DOMAIN calls :
       (/\ calls[i].pc # "running"
        /\ calls'[i].pc = "running"
        /\ lastStartAtByKey[calls[i].key] # 0) =>
         now - lastStartAtByKey[calls[i].key] >= calls[i].minIntervalMs]_vars

\* an operation runs that started exactly its interval after the
\* operation before it under the key threw
C17_Witness ==
  \E i, j \in DOMAIN calls :
    /\ i < j /\ calls[i].key = calls[j].key
    /\ calls[i].pc = "threw"
    /\ calls[j].pc = "running" /\ calls[j].minIntervalMs = 2
    /\ lastStartAtByKey[calls[j].key] = lastCallAtByKey[calls[j].key] + 2

\* C18: under one key the wrapped operations start in the order of the
\* invocations: a call has started only if every call invoked before it
\* under the same key has started.
C18_Fifo ==
  \A i, j \in DOMAIN calls :
    (i < j /\ calls[i].key = calls[j].key /\ Started(j)) => Started(i)

\* both operations of two calls queued under one key have started
C18_Witness ==
  \E i, j \in DOMAIN calls :
    /\ i < j /\ calls[i].key = calls[j].key /\ calls[j].previous = i
    /\ Started(i) /\ Started(j)

\* C19: at any instant at most one wrapped operation is executing under a
\* key, in particular under "manager-analysis", the key of every generator
\* call of the stages.
C19_OneAtATime ==
  \A i, j \in DOMAIN calls :
    (calls[i].key = calls[j].key /\ calls[i].pc = "running" /\ calls[j].pc = "running")
      => i = j

\* a generator call is executing while another one is queued behind it
C19_Witness ==
  \E i, j \in DOMAIN calls :
    /\ calls[i].key = "manager-analysis" /\ calls[j].key = "manager-analysis"
    /\ calls[i].pc = "running"
    /\ calls[j].pc = "await_previous" /\ calls[j].previous = i

\* C20: every evidence ref of an output returned by the debate, arbiter or
\* guidance stage (argument evidenceRefs, refs:[...] tokens of rationale
\* and notesForHR with the fallback lines and the coercion notes, the
\* evidenceRefs of the pings and of the coaching) is the id of an entry of
\* the evidence catalog passed to the stage.
C20_CitationClosure ==
  \A c \in Clients :
    LET catalog == Range(core[c].evidenceCatalog)
    IN  /\ \A output \in Range(debateStage[c]) : DebateRefs(output) \subseteq catalog
        /\ \A output \in Range(arbiterStage[c]) : ArbiterRefs(output) \subseteq catalog
        /\ \A output \in Range(guidanceStage[c]) : GuidanceRefs(output) \subseteq catalog

\* the arbiter returned a fallback rationale line that cites the second
\* entry of the catalog, and a coercion note
C20_Witness ==
  /\ arbiterStage[1] # <<>>
  /\ \E line \in Range(arbiterStage[1][1].rationale) :
       /\ line.body = "uncertainty needs clarification"
       /\ parseCitationRefs(line) = <<2>>
  /\ \E line \in Range(arbiterStage[1][1].notesForHR) :
       line.body = "bonus coerced to defer"

\* C21: in every arbiter output returned by generateArbiterDecision,
\* eligibility.bonus = false implies finalRecommendation.bonus is not
\* "approve", and eligibility.promotion = false implies
\* finalRecommendation.promotion is not "approve", whatever the generator
\* answered.
C21_EligibilityCoercion ==
  \A c \in Clients : \A output \in Range(arbiterStage[c]) :
    /\ ~core[c].eligibility.bonus => output.finalRecommendation.bonus # "approve"
    /\ ~core[c].eligibility.promotion =>
         output.finalRecommendation.promotion # "approve"

\* the arbiter returned for someone eligible for a bonus only: the bonus
\* stays approved, the promotion is deferred and noted
C21_Witness ==
  /\ arbiterStage[1] # <<>>
  /\ core[1].eligibility = [bonus |-> TRUE, promotion |-> FALSE]
  /\ arbiterStage[1][1].finalRecommendation =
       [bonus |-> "approve", promotion |-> "defer"]
  /\ \E line \in Range(arbiterStage[1][1].notesForHR) :
       line.body = "promotion coerced to defer"

\* C22: in every output of every stage (dimension insights, monthly and
\* quarterly synthesis, both debate assessments, the arbiter decision, each
\* employee ping, the manager coaching) the confidence is "low" when the
\* data sufficiency level is "insufficient" and is not "high" when the
\* level is "partial".
C22_ConfidenceCeiling ==
  /\ \A c \in Clients : \A confidence \in StageConfidences(c) :
       /\ core[c].dataSufficiency = "insufficient" => confidence = "low"
       /\ core[c].dataSufficiency = "partial" => confidence # "high"
  /\ \A confidence \in InsightConfidences :
       /\ dataSufficiency[1].level = "insufficient" => confidence = "low"
       /\ dataSufficiency[1].level = "partial" => confidence # "high"

\* a single-pass answer that claims "high" for a period with signals and
\* partial coverage, returned with "medium"
C22_Witness ==
  /\ insightPc = "singlePass" /\ insightOutput # <<>>
  /\ dataSufficiency[1].level = "partial"
  /\ raw.json.confidence = "high"
  /\ Len(insightOutput[1].allSignals) > 0
  /\ insightOutput[1].synthesis.confidence = "medium"

\* C23: every signal that normalizeSignalsByDimension (single pass) and
\* extractSignals return has at least one evidence entry, and the signals
\* returned are, in order, the raw signals of the answer that have a valid
\* evidence entry: a raw signal whose evidence is missing, empty or invalid
\* throughout appears neither in signalsByDimension nor in allSignals.
C23_EvidenceDrop ==
  (insightPc \in {"singlePass", "extractSignals"} /\ insightOutput # <<>>) =>
    LET output == insightOutput[1]
        kept == SelectSeq(AnsweredSignals, LAMBDA pair : HasValidEvidence(pair[2]))
    IN  /\ \A i \in DOMAIN output.allSignals :
             Len(output.allSignals[i].evidence) >= 1
        /\ Len(output.allSignals) = Len(kept)
        /\ \A i \in DOMAIN kept :
             /\ output.allSignals[i].dimension = kept[i][1]
             /\ output.allSignals[i].statement =
                  sanitizeSignalStatement(kept[i][2].statement)
        /\ \A dimension \in Range(DIMENSIONS) :
             output.signalsByDimension[dimension] =
               SelectSeq(output.allSignals,
                         LAMBDA signal : signal.dimension = dimension)

\* a single-pass answer with two raw signals, the first with invalid
\* evidence entries only, returned with the second signal alone
C23_Witness ==
  /\ insightPc = "singlePass" /\ insightOutput # <<>>
  /\ Len(AnsweredSignals) = 2
  /\ AnsweredSignals[1][2].isObject
  /\ AnsweredSignals[1][2].evidence.isArray
  /\ Len(AnsweredSignals[1][2].evidence.items) > 0
  /\ ~HasValidEvidence(AnsweredSignals[1][2])
  /\ Len(insightOutput[1].allSignals) = 1
  /\ insightOutput[1].allSignals[1].dimension = AnsweredSignals[2][1]

\* C24: whenever the signal set of the period is empty, the synthesis is
\* exactly the fixed fallback template of the period type, with confidence
\* "low", whatever text the generator returned: in the single-pass result
\* when no signal of the answer was kept, and as the result of
\* synthesizeInsights when it was given no signal.
C24_ZeroSignalDeterminism ==
  LET fallback == IF periodType = "month" THEN MonthlyFallback ELSE QuarterlyFallback
  IN  /\ (insightPc = "singlePass" /\ insightOutput # <<>>
             /\ Len(PeriodSignals) = 0) =>
            insightOutput[1].synthesis = fallback
      /\ (insightPc = "synthesizeInsights" /\ raw.kind # "throw"
             /\ Len(PeriodSignals) = 0) =>
            insightOutput = <<fallback>>

\* C25: assessDataSufficiency returns, for weeks = the number of distinct
\* week-start dates and months = the number of distinct months:
\* insufficient when weeks = 0; for a month, insufficient when weeks < 4,
\* else partial when a source is missing or weeks < 5, else sufficient; for
\* a quarter, insufficient when months < 3 or weeks < 10, else partial when
\* a source is missing or weeks < 12, else sufficient.
C25_SufficiencyTable ==
  \A assessed \in Range(dataSufficiency) :
    /\ assessed.weeks = WeekCount
    /\ assessed.months = MonthCount
    /\ assessed.level =
         IF WeekCount = 0 THEN "insufficient"
         ELSE IF periodType = "month"
           THEN IF WeekCount < 4 THEN "insufficient"
                ELSE IF SourceMissing \/ WeekCount < 5 THEN "partial"
                ELSE "sufficient"
         ELSE IF MonthCount < 3 \/ WeekCount < 10 THEN "insufficient"
         ELSE IF SourceMissing \/ WeekCount < 12 THEN "partial"
         ELSE "sufficient"

\* a quarter with 13 weeks and both sources is sufficient
C25_Witness ==
  /\ dataSufficiency # <<>>
  /\ periodType = "quarter"
  /\ WeekCount = 13
  /\ ~SourceMissing
  /\ dataSufficiency[1].level = "sufficient"

\* C26: for a fixed period type and fixed source-presence flags, a higher
\* weeks count or months count never lowers the level returned by
\* assessDataSufficiency, in the order insufficient < partial < sufficient.
C26_SufficiencyMonotone ==
  [][(/\ dataSufficiency # <<>>
      /\ dataSufficiency' # <<>>
      /\ periodType' = periodType
      /\ dataSufficiency'[1].sources = dataSufficiency[1].sources
      /\ dataSufficiency'[1].weeks >= dataSufficiency[1].weeks
      /\ dataSufficiency'[1].months >= dataSufficiency[1].months)
     => LevelRank(dataSufficiency'[1].level) >= LevelRank(dataSufficiency[1].level)]_vars

\* a quarter assessed again with its twelfth week: sufficient
C26_Witness ==
  /\ insightPc = "reassessed"
  /\ periodType = "quarter"
  /\ dataSufficiency[1].weeks = 12
  /\ Len(githubWeekly) + Len(slackWeekly) = 12
  /\ dataSufficiency[1].level = "sufficient"

C29_FinalWriteAtomic ==
  \A id \in DOMAIN runs :
    (runs[id].status # "completed" /\ ~InFlight(id)) =>
      /\ RowsOf(employeePrompts, id) = 0
      /\ RowsOf(managerFeedbacks, id) = 0

\* C28: insight generation is append-only and not idempotent.  No step of
\* the generate-report flow changes or removes a stored monthly or
\* quarterly insight row; a request answered with "success" has inserted
\* one row per month bucket and one per quarter bucket of its window, with
\* one generator call each; and after two such requests of one employee
\* every period of both windows has at least two rows.
C28_AppendOnlyInsights ==
  [][/\ Len(monthlyInsightRows') >= Len(monthlyInsightRows)
     /\ \A i \in DOMAIN monthlyInsightRows :
          monthlyInsightRows'[i] = monthlyInsightRows[i]
     /\ Len(quarterlyInsightRows') >= Len(quarterlyInsightRows)
     /\ \A i \in DOMAIN quarterlyInsightRows :
          quarterlyInsightRows'[i] = quarterlyInsightRows[i]
     /\ \A n \in DOMAIN reports' :
          reports'[n].status = "success" => OneRowPerBucket(n)'
     /\ \A a, b \in DOMAIN reports' :
          (/\ a < b
           /\ reports'[a].status = "success" /\ reports'[b].status = "success"
           /\ reports'[a].employeeEmail = reports'[b].employeeEmail) =>
            /\ \A key \in Range(reports'[a].monthlyKeys)
                            \cap Range(reports'[b].monthlyKeys) :
                 Cardinality(RowsFor(monthlyInsightRows',
                                     reports'[a].employeeEmail, "month", key)) >= 2
            /\ \A key \in Range(reports'[a].quarterlyKeys)
                            \cap Range(reports'[b].quarterlyKeys) :
                 Cardinality(RowsFor(quarterlyInsightRows',
                                     reports'[a].employeeEmail, "quarter", key)) >= 2
    ]_vars

\* the window of March 31 and April 7 generated twice: two rows for March,
\* two for April and two for each of the two quarters
C28_Witness ==
  /\ Len(reports) = 2
  /\ reports[1].status = "success" /\ reports[2].status = "success"
  /\ Len(reports[1].monthlyKeys) = 2 /\ Len(reports[1].quarterlyKeys) = 2
  /\ reports[2].monthlyKeys = reports[1].monthlyKeys
  /\ Len(monthlyInsightRows) = 4 /\ Len(quarterlyInsightRows) = 4
  /\ monthlyInsightRows[3].month = monthlyInsightRows[1].month
  /\ quarterlyInsightRows[4].quarter = quarterlyInsightRows[2].quarter

\* C30: no automatic retry.  The generator calls of a run are at most
\* three, the i-th one for the i-th of the stages debate, arbiter,
\* guidance, so none is made twice; a call that failed is the last call of
\* its run; the step in which a call fails takes the request to its catch
\* block, for that stage; and a run with a failed call never becomes
\* "completed".
C30_NoRetry ==
  [][/\ \A id \in DOMAIN genLog' :
          /\ Len(genLog'[id]) <= 3
          /\ \A i \in DOMAIN genLog'[id] :
               /\ genLog'[id][i].stage = <<"debate", "arbiter", "guidance">>[i]
               /\ ~genLog'[id][i].ok => i = Len(genLog'[id])
          /\ (\E i \in DOMAIN genLog'[id] : ~genLog'[id][i].ok) =>
               runs'[id].status # "completed"
     /\ \A c \in Clients :
          (/\ runId[c] \in DOMAIN genLog
           /\ Len(genLog'[runId[c]]) > Len(genLog[runId[c]])
           /\ ~genLog'[runId[c]][Len(genLog'[runId[c]])].ok) =>
            /\ pc'[c] = "mark_failed"
            /\ failing'[c].failedStage =
                 genLog'[runId[c]][Len(genLog'[runId[c]])].stage
    ]_vars

\* a run whose arbiter call failed after a successful debate call: two
\* calls logged, no guidance call, and the run is failed at "arbiter"
C30_Witness ==
  \E id \in DOMAIN genLog :
    /\ Len(genLog[id]) = 2
    /\ genLog[id][1].ok /\ ~genLog[id][2].ok
    /\ runs[id].status = "failed" /\ runs[id].failedStage = "arbiter"
    /\ ~InFlight(id)

\* C31: every evidence entry of a signal that normalizeSignalsByDimension
\* (single pass) and extractSignals return has all four fields present and
\* non-empty: a known source, a weekStart, a non-empty list of fields and a
\* summary; an entry without fields is not returned.
C31_FourFieldsPresent ==
  (insightPc \in {"singlePass", "extractSignals"} /\ insightOutput # <<>>) =>
    \A i \in DOMAIN insightOutput[1].allSignals :
      \A j \in DOMAIN insightOutput[1].allSignals[i].evidence :
        LET entry == insightOutput[1].allSignals[i].evidence[j]
        IN  /\ entry.source \in {"github_weekly_activity", "slack_weekly_activity"}
            /\ entry.weekStart \in {Monday(k) : k \in Weeks}
            /\ entry.fields # <<>>
            /\ entry.summary # ""

\* C32: a guidance answer that passes the schema and has an employeePing
\* message matching the compensation pattern is never returned sanitized:
\* generateCombinedGuidance returns no output and throws
\* prohibited_content, also when the message matches the peer-comparison
\* pattern as well (the only other outcome is invalid_evidence_refs thrown
\* for an earlier ping of the same answer, which ends the stage before the
\* message is reached).
C32_CompensationFailsStage ==
  (/\ pc[1] = "done" /\ raw.kind = "json"
   /\ "employeePings" \in DOMAIN raw.json
   /\ combinedGuidanceSchema(raw.json)
   /\ \E i \in DOMAIN raw.json.employeePings :
        EMPLOYEE_COMPENSATION_PATTERN(raw.json.employeePings[i].message)) =>
    LET pings == raw.json.employeePings
        first == CHOOSE i \in DOMAIN pings :
                   /\ EMPLOYEE_COMPENSATION_PATTERN(pings[i].message)
                   /\ \A j \in 1..(i - 1) :
                        ~EMPLOYEE_COMPENSATION_PATTERN(pings[j].message)
        stoppedEarlier ==
          \E j \in 1..(first - 1) :
            Range(pings[j].evidenceRefs) \ Range(core[1].evidenceCatalog) # {}
    IN  /\ guidanceStage[1] = <<>>
        /\ failing[1].failedStage = "guidance"
        /\ failing[1].errorCode =
             IF stoppedEarlier THEN "invalid_evidence_refs" ELSE "prohibited_content"

\* the only ping of the answer matches both patterns and cites the catalog:
\* the stage threw prohibited_content
C32_Witness ==
  /\ pc[1] = "done" /\ raw.kind = "json"
  /\ "employeePings" \in DOMAIN raw.json
  /\ combinedGuidanceSchema(raw.json)
  /\ Len(raw.json.employeePings) = 1
  /\ PEER_COMPARISON_PATTERN(raw.json.employeePings[1].message)
  /\ EMPLOYEE_COMPENSATION_PATTERN(raw.json.employeePings[1].message)
  /\ Range(raw.json.employeePings[1].evidenceRefs) \subseteq
       Range(core[1].evidenceCatalog)
  /\ guidanceStage[1] = <<>>
  /\ failing[1].errorCode = "prohibited_content"

\* C33: every rationale and notesForHR string of an arbiter output that
\* generateArbiterDecision returns has at least one refs:[...] citation;
\* and an answer that passes the schema with a rationale or notesForHR
\* string without one yields no output, so no coerced recommendation
\* either: the stage throws invalid_citations at that string (the only
\* other outcome is invalid_evidence_refs thrown for an earlier string of
\* the same answer).
C33_CitationRequired ==
  /\ \A output \in Range(arbiterStage[1]) :
       \A line \in Range(output.rationale) \cup Range(output.notesForHR) :
         parseCitationRefs(line) # <<>>
  /\ (/\ pc[1] = "done" /\ raw.kind = "json"
      /\ "rationale" \in DOMAIN raw.json
      /\ arbiterDecisionSchema(raw.json)
      /\ \E line \in Range(raw.json.rationale \o raw.json.notesForHR) :
           parseCitationRefs(line) = <<>>) =>
       LET lines == raw.json.rationale \o raw.json.notesForHR
           first == CHOOSE i \in DOMAIN lines :
                      /\ parseCitationRefs(lines[i]) = <<>>
                      /\ \A j \in 1..(i - 1) : parseCitationRefs(lines[j]) # <<>>
           stoppedEarlier ==
             \E j \in 1..(first - 1) :
               Range(parseCitationRefs(lines[j])) \ Range(core[1].evidenceCatalog) # {}
       IN  /\ arbiterStage[1] = <<>>
           /\ failing[1].failedStage = "arbiter"
           /\ failing[1].errorCode =
                IF stoppedEarlier THEN "invalid_evidence_refs" ELSE "invalid_citations"

\* an answer that approves the bonus of someone not eligible, with a
\* rationale that cites nothing: the stage threw invalid_citations
C33_Witness ==
  /\ pc[1] = "done" /\ raw.kind = "json"
  /\ "rationale" \in DOMAIN raw.json
  /\ arbiterDecisionSchema(raw.json)
  /\ parseCitationRefs(raw.json.rationale[1]) = <<>>
  /\ raw.json.finalRecommendation.bonus = "approve"
  /\ ~core[1].eligibility.bonus
  /\ core[1].evidenceCatalog # <<>>
  /\ arbiterStage[1] = <<>>
  /\ failing[1].errorCode = "invalid_citations"

\* C34: the signals that normalizeSignalsByDimension (single pass) and
\* extractSignals return have pairwise distinct ids, whatever ids the
\* answer supplied; in the single pass a kept signal keeps its supplied id
\* when no earlier kept signal has it, and otherwise gets an S<n> that no
\* earlier kept signal has.
C34_DistinctSignalIds ==
  (insightPc \in {"singlePass", "extractSignals"} /\ insightOutput # <<>>) =>
    LET signals == insightOutput[1].allSignals
        kept == SelectSeq(AnsweredSignals, LAMBDA pair : HasValidEvidence(pair[2]))
    IN  /\ \A i, j \in DOMAIN signals : i # j => signals[i].id # signals[j].id
        /\ insightPc = "singlePass" =>
             \A i \in DOMAIN signals :
               LET given == kept[i][2].signalId
                   earlier == {signals[j].id : j \in 1..(i - 1)}
               IN  IF given > 0 /\ given \notin earlier
                     THEN signals[i].id = given
                     ELSE signals[i].id \in 1..100 \ earlier

\* a single-pass answer whose first signal is named "S1" and whose second
\* has no id: the second is returned as S2, the S1 of the counter being
\* taken
C34_Witness ==
  /\ insightPc = "singlePass" /\ insightOutput # <<>>
  /\ Len(AnsweredSignals) = 2
  /\ AnsweredSignals[1][2].isObject /\ AnsweredSignals[1][2].signalId = 1
  /\ AnsweredSignals[2][2].isObject /\ AnsweredSignals[2][2].signalId = 0
  /\ Len(insightOutput[1].allSignals) = 2
  /\ insightOutput[1].allSignals[1].id = 1
  /\ insightOutput[1].allSignals[2].id = 2

\* C35: the evidence catalog of a request has the ids E1..En in order,
\* without gap or duplicate, n being the number of stored texts that are
\* not blank after trimming (a blank text takes no id); a request whose
\* rows are stored but whose texts are all blank ends with HTTP 409,
\* failedStage evidence_load, errorCode empty_evidence_catalog and no run
\* id; and no analysis_run row exists for an employee and quarter without a
\* citable text.
C35_CatalogIds ==
  /\ \A c \in Clients :
       LET email == Trim(body[c].employeeEmail)
           stored == /\ ValidBody(body[c])
                     /\ RowsStored(email, body[c].quarter, body[c].monthKeys)
       IN  /\ pc[c] \notin {"idle", "check", "load", "done"} =>
                /\ stored
                /\ core[c].evidenceCatalog =
                     [i \in 1..CitableCount(req[c].employeeEmail, req[c].quarter,
                                            req[c].monthKeys) |-> i]
                /\ core[c].evidenceCatalog # <<>>
           /\ (/\ pc[c] = "done" /\ stored
               /\ CitableCount(email, body[c].quarter, body[c].monthKeys) = 0) =>
                result[c] = Failure(409, NoRun, "evidence_load",
                                    "empty_evidence_catalog")
  /\ \A id \in DOMAIN runs :
       /\ RowsStored(runs[id].employeeEmail, runs[id].quarter,
                     expectedMonthsForQuarter(runs[id].quarter))
       /\ CitableCount(runs[id].employeeEmail, runs[id].quarter,
                       expectedMonthsForQuarter(runs[id].quarter)) > 0

\* a request whose rows hold blank texts among the others has a catalog of
\* fewer entries than texts, and a run row
C35_Witness ==
  \E c \in Clients :
    /\ pc[c] = "debate"
    /\ runId[c] # NoRun
    /\ Len(core[c].evidenceCatalog) >= 2
    /\ Len(core[c].evidenceCatalog) <
         Len(LatestTexts(req[c].employeeEmail, req[c].quarter, req[c].monthKeys))
    /\ core[c].evidenceCatalog[Len(core[c].evidenceCatalog)] =
         Len(core[c].evidenceCatalog)

\* C36: the step in which a wrapped operation throws records the time under
\* its key and changes no other call; and every call invoked under a key
\* eventually has its operation started, the operations before it settling
\* by returning or by throwing.
C36_ThrowReleasesQueue ==
  /\ [][\A i \in DOMAIN calls :
          (calls[i].pc = "running" /\ calls'[i].pc # "running") =>
            /\ calls'[i].pc \in {"returned", "threw"}
            /\ lastCallAtByKey'[calls[i].key] = now
            /\ \A j \in DOMAIN calls : j # i => calls'[j] = calls[j]]_vars
  /\ \A i \in 1..MaxCalls :
       (Len(calls) >= i) ~> (Len(calls) >= i /\ Started(i))

\* the operation of a call threw and the next call under that key has
\* returned since
C36_Witness ==
  \E i, j \in DOMAIN calls :
    /\ calls[j].key = calls[i].key /\ calls[j].previous = i
    /\ calls[i].pc = "threw"
    /\ calls[j].pc = "returned"

C38_RunRowShape ==
  \A id \in DOMAIN runs :
    /\ runs[id].status \in {"running", "completed", "failed"}
    /\ ~runs[id].completedAt <=> runs[id].status = "running"
    /\ runs[id].failedStage # NoStage <=> runs[id].status = "failed"
    /\ runs[id].failureReason # "none" <=> runs[id].status = "failed"
    /\ runs[id].failedStage \in
         {NoStage, "debate", "arbiter", "guidance", "persistence"}

\* a completed run, and a run that failed while its rows were stored
C38_Witness ==
  \E a, b \in DOMAIN runs :
    /\ runs[a].status = "completed" /\ runs[a].completedAt
    /\ runs[b].status = "failed" /\ runs[b].failedStage = "persistence"
    /\ runs[b].completedAt

\* C39: normalizeConfidence of the insight generator and of the stage
\* functions never returns a confidence above a valid one it was given
\* (low < medium < high), and normalizing its result again with the same
\* dataSufficiency and hasSignals returns that result.
C39_ConfidenceMonotoneIdempotent ==
  insightPc \in {"normalizeConfidence", "stageConfidence"} =>
    /\ \A i \in DOMAIN insightOutput : insightOutput[i] \in {"low", "medium", "high"}
    /\ raw.value \in {"low", "medium", "high"} =>
         ConfidenceRank(insightOutput[1]) <= ConfidenceRank(raw.value)
    /\ \A i \in DOMAIN insightOutput : insightOutput[i] = insightOutput[1]

\* "high" given for a period of partial coverage with signals came back as
\* "medium", and "medium" came back as "medium"
C39_Witness ==
  /\ insightPc = "normalizeConfidence"
  /\ raw.value = "high" /\ raw.hasSignals
  /\ dataSufficiency[1].level = "partial"
  /\ Len(insightOutput) >= 2
  /\ insightOutput[1] = "medium" /\ insightOutput[2] = "medium"

\* C40: the evidence catalog and the data sufficiency of a request are those
\* of the quarterly row created last for the employee and quarter and of
\* the row created last for each of the three months: the data sufficiency
\* is the one parsed from that quarterly row, the catalog has one entry per
\* non-blank text of those rows, and rows created earlier add nothing.
C40_LatestRowsOnly ==
  \A c \in Clients :
    pc[c] \notin {"idle", "check", "load", "done"} =>
      LET quarterlyRow ==
            LatestRow({r \in Range(employeeQuarterlyInsights) :
                         /\ r.employeeEmail = req[c].employeeEmail
                         /\ r.quarter = req[c].quarter})
      IN  /\ core[c].dataSufficiency =
               parseDataSufficiency(quarterlyRow.dataSufficiency,
                                    parseConfidenceLevel(quarterlyRow.confidenceLevel))
          /\ Len(core[c].evidenceCatalog) =
               CitableCount(req[c].employeeEmail, req[c].quarter, req[c].monthKeys)

\* a request for an employee with two quarterly rows of the quarter and two
\* rows of one month has the data sufficiency of the later quarterly row,
\* which differs from that of the earlier one
C40_Witness ==
  \E c \in Clients :
    /\ pc[c] = "debate"
    /\ core[c].dataSufficiency = "partial"
    /\ \E old \in Range(employeeQuarterlyInsights) :
         /\ old.employeeEmail = req[c].employeeEmail /\ old.quarter = req[c].quarter
         /\ old.createdAt = 0 /\ old.dataSufficiency = "sufficient"
    /\ \E i, j \in DOMAIN employeeMonthlyInsights :
         /\ i < j
         /\ employeeMonthlyInsights[i].employeeEmail = req[c].employeeEmail
         /\ employeeMonthlyInsights[j].employeeEmail = req[c].employeeEmail
         /\ employeeMonthlyInsights[i].month = employeeMonthlyInsights[j].month
         /\ employeeMonthlyInsights[i].createdAt < employeeMonthlyInsights[j].createdAt

====
